---------------------------- MODULE Spec2Model ----------------------------
(***************************************************************************)
(* State-machine model of the RAG chat front end: the two API clients      *)
(* (server-resident ApiClient, client-resident StatelessAPIClient), the    *)
(* API factory, and the ChatInterface / ChatPage / PDFUpload callers.      *)
(*                                                                         *)
(* One step of the model is one task of the browser's event loop together  *)
(* with the microtasks it triggers: a handler, a promise continuation or   *)
(* the continuation of one reader.read().  The answer pipeline that runs   *)
(* on the server is not part of the front-end sources; its state machine   *)
(* (the B... actions) follows the design document.                         *)
(***************************************************************************)
EXTENDS Integers, Sequences, FiniteSets, TLC

VARIABLES
    isVercel,        \* apiFactory: the deployment flag read once at load time
    apiKey,          \* ApiKeyProvider state
    storedPDFData,   \* StatelessAPIClient.storedPDFData: Map as ordered entries
    sessionStorage,  \* the browser's sessionStorage item 'pdf_data'
    uploads,         \* uploadPDF calls, in call order
    netlog,          \* requests that reached the application's API
    questions,       \* streamChat / sendMessage calls, in call order
    backend,         \* per question: synthesizer state and response stream
    chat,            \* ChatPage / ChatInterface component state
    core,            \* the call of the ingestion / retrieval core being made
    localStorage,    \* the browser's localStorage item 'rag_chat_api_key'
    modal,           \* ApiKeyModal: isOpen prop and component state
    pdfUpload        \* PDFUpload component state

vars == <<isVercel, apiKey, storedPDFData, sessionStorage, uploads, netlog,
          questions, backend, chat, core, localStorage, modal, pdfUpload>>

-----------------------------------------------------------------------------
(* Bounds of the model *)

\* streamChat / sendMessage calls and upload calls per behaviour
MaxQuestions == 1
MaxUploads == 1
\* length of a page text, chunk_size, number of candidates and k of the
\* calls of the core
MaxText == 15
MaxChunkSize == 10
MaxCandidates == 3
MaxK == 4
\* lines of a response body handed to readStream
MaxLines == 2

-----------------------------------------------------------------------------
(* Values *)

None == [none |-> TRUE]

FileIds == {"f1", "f2"}

\* ProcessedPDF: the upload response of the stateless endpoint.
Payload(f, cs, es, ms) ==
    [file_id |-> f, chunks |-> cs, embeddings |-> es, chunk_metadata |-> ms]

P1 == Payload("f1", <<"c1", "c2">>, <<"e1", "e2">>, <<"m1", "m2">>)
P1b == Payload("f1", <<"c3">>, <<"e3">>, <<"m3">>)
P2 == Payload("f2", <<"c4">>, <<"e4">>, <<"m4">>)
\* chunk and embedding sequences of different length
PBad == Payload("f2", <<"c5", "c6">>, <<"e5">>, <<"m5", "m6">>)

ResponsePayloads == {P1, P1b, P2, PBad}

Docs == {"blank", "text"}

\* StreamEvent: absent optional fields are the empty value.
Event(t, c, s) == [type |-> t, content |-> c, sources |-> s]
ContentEv(t) == Event("content", t, <<>>)
SourcesEv(s) == Event("sources", "", s)
ErrorEv(m) == Event("error", m, <<>>)
NoEv == Event("none", "", <<>>)

TwoSources == <<"s1", "s2">>

TokenSeqs == {<<"A", "B">>}

\* Pieces of the response text.  D is the text 'data: ', NL a line feed,
\* SP white space, DONE the text '[DONE]', J a JSON value.
Atom(k, ev) == [k |-> k, ev |-> ev]
D == Atom("D", NoEv)
NL == Atom("NL", NoEv)
DONE == Atom("DONE", NoEv)
J(ev) == Atom("J", ev)

\* One server-sent event: 'data: <payload>\n\n'.
SSE(a) == <<D, a, NL, NL>>

\* White space that is not a line feed, and text that is neither 'data: '
\* nor a JSON value
SP == Atom("SP", NoEv)
TXT == Atom("TXT", NoEv)

-----------------------------------------------------------------------------
(* Line handling of the two readStream loops *)

\* String.prototype.split('\n')
RECURSIVE SplitNL(_)
SplitNL(s) ==
    IF s = <<>> THEN << <<>> >>
    ELSE LET r == SplitNL(Tail(s)) IN
         IF Head(s).k = "NL" THEN << <<>> >> \o r
         ELSE << <<Head(s)>> \o Head(r) >> \o Tail(r)

RECURSIVE TrimLeft(_)
TrimLeft(s) ==
    IF s # <<>> /\ Head(s).k = "SP" THEN TrimLeft(Tail(s)) ELSE s

RECURSIVE TrimRight(_)
TrimRight(s) ==
    IF s # <<>> /\ s[Len(s)].k = "SP"
    THEN TrimRight(SubSeq(s, 1, Len(s) - 1)) ELSE s

\* String.prototype.trim()
Trim(s) == TrimRight(TrimLeft(s))

\* What one line makes the loop do: skip it, complete, or deliver an event.
Skip == [o |-> "skip", ev |-> NoEv]
Done == [o |-> "done", ev |-> NoEv]
Msg(ev) == [o |-> "msg", ev |-> ev]

\* The body of 'if (data === "[DONE]") ... if (data) { JSON.parse ... }'
\* JSON.parse accepts white space around the value and throws on anything
\* that is not one JSON value; the throw is caught and the line is skipped.
DataOutcome(data) ==
    IF data = <<DONE>> THEN Done
    ELSE LET t == Trim(data) IN
         IF Len(t) = 1 /\ t[1].k = "J" THEN Msg(t[1].ev) ELSE Skip

\* ApiClient: line.startsWith('data: '), data = line.slice(6).trim()
ServerLineOutcome(line) ==
    IF line # <<>> /\ Head(line).k = "D"
    THEN DataOutcome(Trim(Tail(line)))
    ELSE Skip

\* StatelessAPIClient: trimmedLine = line.trim(); startsWith('data: ');
\* data = trimmedLine.slice(6).  A trimmed line that is only 'data:' has lost
\* the blank of the prefix and does not start with 'data: '.
StatelessLineOutcome(line) ==
    LET t == Trim(line) IN
    IF Len(t) >= 2 /\ Head(t).k = "D"
    THEN DataOutcome(Tail(t))
    ELSE Skip

-----------------------------------------------------------------------------
(* Callbacks and one pass of the readStream loop body *)

Call(cb, ev) == [cb |-> cb, ev |-> ev]
OnMessage(ev) == Call("onMessage", ev)
OnComplete == Call("onComplete", NoEv)
OnError == Call("onError", NoEv)

\* The 'for (const line of lines)' loop: the callbacks it makes, in order.
\* The loop returns at the first [DONE] line.
RECURSIVE LoopCalls(_)
LoopCalls(outs) ==
    IF outs = <<>> THEN <<>>
    ELSE IF Head(outs).o = "done" THEN <<OnComplete>>
    ELSE IF Head(outs).o = "msg"
         THEN <<OnMessage(Head(outs).ev)>> \o LoopCalls(Tail(outs))
    ELSE LoopCalls(Tail(outs))

\* Variant of LoopReturned: 'break' in place of 'return' after [DONE], which
\* leaves the for loop only.
LoopReturnedNever(outs) == FALSE

LoopReturned(outs) == \E i \in 1..Len(outs) : outs[i].o = "done"

ReadResult(outs, rest) ==
    [calls |-> LoopCalls(outs), returned |-> LoopReturned(outs), buffer |-> rest]

\* Variant of ServerReadStep: the chunk is split without the kept buffer
\* ('buffer += chunk' forgotten).
ServerReadStepNoBuffer(buffer, chunk) ==
    LET lines == SplitNL(chunk)
        n == Len(lines)
        outs == [i \in 1..(n - 1) |-> ServerLineOutcome(lines[i])]
    IN  ReadResult(outs, lines[n])

\* Variant of ServerReadStep: the buffer is never cut back to its last,
\* incomplete line ('buffer = lines.pop()' forgotten).
ServerReadStepKeep(buffer, chunk) ==
    LET lines == SplitNL(buffer \o chunk)
        n == Len(lines)
        outs == [i \in 1..(n - 1) |-> ServerLineOutcome(lines[i])]
    IN  ReadResult(outs, buffer \o chunk)

\* ApiClient.readStream: buffer += chunk; lines = buffer.split('\n');
\* buffer = lines.pop() || ''; then the loop over the complete lines.
ServerReadStep(buffer, chunk) ==
    LET lines == SplitNL(buffer \o chunk)
        n == Len(lines)
        outs == [i \in 1..(n - 1) |-> ServerLineOutcome(lines[i])]
    IN  ReadResult(outs, lines[n])

\* StatelessAPIClient.readStream: lines = chunk.split('\n'); every piece of
\* the chunk is treated as a line, nothing is kept for the next read.
StatelessReadStep(buffer, chunk) ==
    LET lines == SplitNL(chunk)
        outs == [i \in 1..Len(lines) |-> StatelessLineOutcome(lines[i])]
    IN  ReadResult(outs, <<>>)

ReadStep(client, buffer, chunk) ==
    IF client = "server" THEN ServerReadStep(buffer, chunk)
    ELSE StatelessReadStep(buffer, chunk)

-----------------------------------------------------------------------------
(* StatelessAPIClient: the Map of held payloads and its sessionStorage copy *)

MapHas(m, k) == \E i \in 1..Len(m) : m[i][1] = k

\* Map.prototype.get; undefined is None
MapGet(m, k) ==
    IF MapHas(m, k) THEN m[CHOOSE i \in 1..Len(m) : m[i][1] = k][2] ELSE None

\* Map.prototype.set: an existing key keeps its place
MapSet(m, k, v) ==
    IF MapHas(m, k)
    THEN [m EXCEPT ![CHOOSE i \in 1..Len(m) : m[i][1] = k] = <<k, v>>]
    ELSE Append(m, <<k, v>>)

\* A JSON text is the sequence of its tokens, commas and colons left out:
\* punctuation and string literals.
Punct(t) == [k |-> "p", t |-> t]
Str(t) == [k |-> "s", t |-> t]

\* JSON.stringify of an array of strings
StringifyArray(seq) ==
    <<Punct("[")>> \o [i \in 1..Len(seq) |-> Str(seq[i])] \o <<Punct("]")>>

\* JSON.stringify of a ProcessedPDF
StringifyPDF(p) ==
    <<Punct("{"), Str("file_id"), Str(p.file_id), Str("chunks")>>
        \o StringifyArray(p.chunks)
        \o <<Str("embeddings")>> \o StringifyArray(p.embeddings)
        \o <<Str("chunk_metadata")>> \o StringifyArray(p.chunk_metadata)
        \o <<Punct("}")>>

RECURSIVE StringifyEntries(_)
StringifyEntries(m) ==
    IF m = <<>> THEN <<>>
    ELSE <<Punct("["), Str(m[1][1])>> \o StringifyPDF(m[1][2])
             \o <<Punct("]")>> \o StringifyEntries(Tail(m))

\* JSON.stringify(Array.from(map.entries()))
Stringify(m) == <<Punct("[")>> \o StringifyEntries(m) \o <<Punct("]")>>

\* The string literals of toks from position i up to the next punctuation
RECURSIVE ParseStrings(_, _)
ParseStrings(toks, i) ==
    IF i <= Len(toks) /\ toks[i].k = "s"
    THEN <<toks[i].t>> \o ParseStrings(toks, i + 1)
    ELSE <<>>

\* The properties of the object whose first key is at position i, as
\* <<key, value>> pairs, and the position after its closing brace
RECURSIVE ParseProperties(_, _)
ParseProperties(toks, i) ==
    IF toks[i] = Punct("}") THEN [val |-> <<>>, next |-> i + 1]
    ELSE LET key == toks[i].t
             isArray == toks[i + 1] = Punct("[")
             items == ParseStrings(toks, i + 2)
             value == IF isArray THEN items ELSE toks[i + 1].t
             after == IF isArray THEN i + 3 + Len(items) ELSE i + 2
             rest == ParseProperties(toks, after)
         IN  [val |-> <<<<key, value>>>> \o rest.val, next |-> rest.next]

\* Property key of a parsed object; undefined is None
Property(props, key) ==
    IF \E i \in 1..Len(props) : props[i][1] = key
    THEN props[CHOOSE i \in 1..Len(props) : props[i][1] = key][2]
    ELSE None

\* The entries of the array whose first entry is at position i
RECURSIVE ParseEntries(_, _)
ParseEntries(toks, i) ==
    IF toks[i] = Punct("]") THEN <<>>
    ELSE LET props == ParseProperties(toks, i + 3)
             pdf == Payload(Property(props.val, "file_id"),
                            Property(props.val, "chunks"),
                            Property(props.val, "embeddings"),
                            Property(props.val, "chunk_metadata"))
         IN  <<<<toks[i + 1].t, pdf>>>> \o ParseEntries(toks, props.next + 1)

\* JSON.parse of a text that JSON.stringify made of the entries of a Map
Parse(toks) == ParseEntries(toks, 2)

\* new Map(entries): a later entry of a key replaces the value of an earlier
RECURSIVE NewMap(_)
NewMap(entries) ==
    IF entries = <<>> THEN <<>>
    ELSE LET n == Len(entries)
         IN  MapSet(NewMap(SubSeq(entries, 1, n - 1)),
                    entries[n][1], entries[n][2])

\* saveToSession: JSON.stringify(Array.from(this.storedPDFData.entries()))
SaveToSession(m) == [json |-> Stringify(m)]

\* restoreFromSession: new Map(JSON.parse(stored)) when the item exists
RestoreFromSession(item) ==
    IF item = None THEN <<>> ELSE NewMap(Parse(item.json))

Reverse(seq) == [i \in 1..Len(seq) |-> seq[Len(seq) + 1 - i]]

\* Variant of StatelessChatRequest: the embeddings are sent in reverse order.
StatelessChatRequestReversed(message, pdfData, history) ==
    [message |-> message,
     chunks |-> pdfData.chunks,
     embeddings |-> Reverse(pdfData.embeddings),
     chunk_metadata |-> pdfData.chunk_metadata,
     history |-> history]

\* Variant of StatelessChatRequest: the embeddings are left out of the body.
StatelessChatRequestNoEmbeddings(message, pdfData, history) ==
    [message |-> message,
     chunks |-> pdfData.chunks,
     embeddings |-> <<>>,
     chunk_metadata |-> pdfData.chunk_metadata,
     history |-> history]

\* The request body built by sendMessage and streamChat of the stateless client
StatelessChatRequest(message, pdfData, history) ==
    [message |-> message,
     chunks |-> pdfData.chunks,
     embeddings |-> pdfData.embeddings,
     chunk_metadata |-> pdfData.chunk_metadata,
     history |-> history]

\* ChatRequest of the server-resident client
ChatRequest(fileId, message, history) ==
    [file_id |-> fileId, message |-> message, history |-> history]

\* apiFactory: export const api = isVercel ? statelessApiClient : apiClient
api == IF isVercel THEN "stateless" ELSE "server"

-----------------------------------------------------------------------------
(* Records of the model *)

\* One streamChat or sendMessage call.  phase is the position of its promise
\* chain: "fetch" (request pending), "read" (awaiting reader.read()),
\* "closed" (chain ended).  held is the Map entry the call found.
Question(client, owner, kind, f, phase, calls, exit, request, held) ==
    [client |-> client, owner |-> owner, kind |-> kind, fileId |-> f,
     phase |-> phase, aborted |-> FALSE, abortCalls |-> 0, buffer |-> <<>>,
     calls |-> calls, exit |-> exit, request |-> request, held |-> held]

\* The synthesizer's state for one question and the part of the response
\* body that is on its way to the client.
Backend(toks) ==
    [st |-> "Idle", toks |-> toks, sent |-> 0, emitted |-> <<>>,
     wire |-> <<>>, eof |-> FALSE]

ChatMessage(role, content, sources) ==
    [role |-> role, content |-> content, sources |-> sources]

\* ChatPage / ChatInterface after mounting; page "home" is the upload page.
\* A null error and a null fileId are the empty string, a null ref is 0.
ChatInit(page, f) ==
    [page |-> page, fileId |-> f, messages |-> <<>>, input |-> "",
     isStreaming |-> FALSE, currentSources |-> <<>>, error |-> "",
     abortStreamRef |-> 0]

\* A request to /api/v1; xApiKey is its 'X-API-Key' header.
Requests(by, client, endpoint, f, body) ==
    [by |-> by, client |-> client, endpoint |-> endpoint, file_id |-> f,
     body |-> body, xApiKey |-> apiKey]

InFlight(q) == q.phase # "closed"

Qs == 1..Len(questions)

-----------------------------------------------------------------------------
(* ChatInterface: the callbacks handed to streamChat *)

\* Variant of AppendContent: the text goes to the last message of the list
\* that handleSubmit saw ('messages' of the closure in place of 'prev').
AppendContentStale(msgs, text) ==
    LET n == Len(msgs) IN
    IF n > 2 /\ msgs[n - 2].role = "assistant"
    THEN [msgs EXCEPT ![n - 2].content = @ \o text]
    ELSE IF n > 0 /\ msgs[n].role = "assistant"
    THEN [msgs EXCEPT ![n].content = @ \o text]
    ELSE msgs

\* Variant of AppendContent: the updater runs twice on the same message
\* object.
AppendContentTwice(msgs, text) ==
    LET n == Len(msgs) IN
    IF n > 0 /\ msgs[n].role = "assistant"
    THEN [msgs EXCEPT ![n].content = @ \o text \o text]
    ELSE msgs

\* setMessages(prev => { ...; if (lastMessage.role === 'assistant') ... })
AppendContent(msgs, text) ==
    LET n == Len(msgs) IN
    IF n > 0 /\ msgs[n].role = "assistant"
    THEN [msgs EXCEPT ![n].content = @ \o text]
    ELSE msgs

SetLastSources(msgs, srcs) ==
    LET n == Len(msgs) IN
    IF n > 0 /\ msgs[n].role = "assistant"
    THEN [msgs EXCEPT ![n].sources = srcs]
    ELSE msgs

\* Variant of ChatCallback: onError leaves isStreaming set.
ChatCallbackKeepsStreaming(c, call) ==
    IF call.cb = "onMessage" THEN
        IF call.ev.type = "content"
        THEN [c EXCEPT !.messages = AppendContent(@, <<call.ev.content>>)]
        ELSE IF call.ev.type = "sources"
        THEN [c EXCEPT !.currentSources = call.ev.sources,
                       !.messages = SetLastSources(@, call.ev.sources)]
        ELSE IF call.ev.type = "error"
        THEN [c EXCEPT !.error = IF call.ev.content = ""
                                 THEN "An error occurred" ELSE call.ev.content]
        ELSE c
    ELSE IF call.cb = "onError"
    THEN [c EXCEPT !.error = "error.message"]
    ELSE [c EXCEPT !.isStreaming = FALSE]

\* Variant of ChatCallback: onError removes the unfinished answer.
ChatCallbackRetract(c, call) ==
    IF call.cb = "onMessage" THEN
        IF call.ev.type = "content"
        THEN [c EXCEPT !.messages = AppendContent(@, <<call.ev.content>>)]
        ELSE IF call.ev.type = "sources"
        THEN [c EXCEPT !.currentSources = call.ev.sources,
                       !.messages = SetLastSources(@, call.ev.sources)]
        ELSE IF call.ev.type = "error"
        THEN [c EXCEPT !.error = IF call.ev.content = ""
                                 THEN "An error occurred" ELSE call.ev.content]
        ELSE c
    ELSE IF call.cb = "onError"
    THEN [c EXCEPT !.error = "error.message", !.isStreaming = FALSE,
                   !.messages = IF @ = <<>> THEN @ ELSE SubSeq(@, 1, Len(@) - 1)]
    ELSE [c EXCEPT !.isStreaming = FALSE]

\* Variant of ChatCallback: the first content event ends the streaming
\* state while the stream is still read.
ChatCallbackEndsOnContent(c, call) ==
    IF call.cb = "onMessage" THEN
        IF call.ev.type = "content"
        THEN [c EXCEPT !.messages = AppendContent(@, <<call.ev.content>>),
                       !.isStreaming = FALSE]
        ELSE IF call.ev.type = "sources"
        THEN [c EXCEPT !.currentSources = call.ev.sources,
                       !.messages = SetLastSources(@, call.ev.sources)]
        ELSE IF call.ev.type = "error"
        THEN [c EXCEPT !.error = IF call.ev.content = ""
                                 THEN "An error occurred" ELSE call.ev.content]
        ELSE c
    ELSE IF call.cb = "onError"
    THEN [c EXCEPT !.error = "error.message", !.isStreaming = FALSE]
    ELSE [c EXCEPT !.isStreaming = FALSE]

\* The onMessage, onError and onComplete closures of handleSubmit
ChatCallback(c, call) ==
    IF call.cb = "onMessage" THEN
        IF call.ev.type = "content"
        THEN [c EXCEPT !.messages = AppendContent(@, <<call.ev.content>>)]
        ELSE IF call.ev.type = "sources"
        THEN [c EXCEPT !.currentSources = call.ev.sources,
                       !.messages = SetLastSources(@, call.ev.sources)]
        ELSE IF call.ev.type = "error"
        THEN [c EXCEPT !.error = IF call.ev.content = ""
                                 THEN "An error occurred" ELSE call.ev.content]
        ELSE c
    ELSE IF call.cb = "onError"
    THEN [c EXCEPT !.error = "error.message", !.isStreaming = FALSE]
    ELSE [c EXCEPT !.isStreaming = FALSE]

RECURSIVE ChatCallbacks(_, _)
ChatCallbacks(c, calls) ==
    IF calls = <<>> THEN c
    ELSE ChatCallbacks(ChatCallback(c, Head(calls)), Tail(calls))

\* The effect of a question's callbacks on the component that owns them
Deliver(q, calls) ==
    IF questions[q].owner = "chat"
    THEN chat' = ChatCallbacks(chat, calls)
    ELSE UNCHANGED chat

-----------------------------------------------------------------------------
(* streamChat and sendMessage of the two clients *)

StreamEndpoint(client) ==
    IF client = "server" THEN "/chat/stream"
    ELSE "/stateless/chat/stateless/stream"

SendEndpoint(client) ==
    IF client = "server" THEN "/chat/message"
    ELSE "/stateless/chat/stateless"

ChatBody(client, f, message, history) ==
    IF client = "server" THEN ChatRequest(f, message, history)
    ELSE StatelessChatRequest(message, MapGet(storedPDFData, f), history)

\* Variant of StreamChat: the 'return' after onError is missing, the request
\* is posted without a payload.
StreamChatNoReturn(client, owner, f, message, history, toks) ==
    LET pdf == MapGet(storedPDFData, f) IN
    /\ backend' = Append(backend, Backend(toks))
    /\ IF client = "stateless" /\ pdf = None
       THEN /\ questions' = Append(questions,
                   Question(client, owner, "stream", f, "fetch", <<OnError>>,
                            "", None, None))
            /\ netlog' = netlog \cup
                   {Requests(owner, client, StreamEndpoint(client), f, None)}
       ELSE LET req == ChatBody(client, f, message, history) IN
            /\ questions' = Append(questions,
                   Question(client, owner, "stream", f, "fetch", <<>>, "",
                            req, IF client = "stateless" THEN pdf ELSE None))
            /\ netlog' = netlog \cup
                   {Requests(owner, client, StreamEndpoint(client), f, req)}

\* The synchronous part of streamChat, up to the return of the abort function.
\* The stateless client calls onError and returns when it holds no payload.
StreamChat(client, owner, f, message, history, toks) ==
    LET pdf == MapGet(storedPDFData, f) IN
    /\ backend' = Append(backend, Backend(toks))
    /\ IF client = "stateless" /\ pdf = None
       THEN /\ questions' = Append(questions,
                   Question(client, owner, "stream", f, "closed", <<OnError>>,
                            "missing", None, None))
            /\ UNCHANGED netlog
       ELSE LET req == ChatBody(client, f, message, history) IN
            /\ questions' = Append(questions,
                   Question(client, owner, "stream", f, "fetch", <<>>, "",
                            req, IF client = "stateless" THEN pdf ELSE None))
            /\ netlog' = netlog \cup
                   {Requests(owner, client, StreamEndpoint(client), f, req)}

\* The synchronous part of sendMessage: the stateless client throws when it
\* holds no payload, otherwise the request is posted.
SendMessage(client, owner, f, message, history) ==
    LET pdf == MapGet(storedPDFData, f) IN
    /\ backend' = Append(backend, Backend(<<>>))
    /\ IF client = "stateless" /\ pdf = None
       THEN /\ questions' = Append(questions,
                   Question(client, owner, "send", f, "closed", <<>>,
                            "rejected", None, None))
            /\ UNCHANGED netlog
       ELSE LET req == ChatBody(client, f, message, history) IN
            /\ questions' = Append(questions,
                   Question(client, owner, "send", f, "fetch", <<>>, "",
                            req, IF client = "stateless" THEN pdf ELSE None))
            /\ netlog' = netlog \cup
                   {Requests(owner, client, SendEndpoint(client), f, req)}

\* Variant of CatchCalls: the catch reports every error, the abort included.
CatchCallsUnchecked(aborted) == <<OnError>>

\* '.catch(error => { if (!abortController.signal.aborted) onError(error) })'
\* and the catch block of readStream
CatchCalls(aborted) == IF aborted THEN <<>> ELSE <<OnError>>

Close(q, calls, exit) ==
    /\ questions' = [questions EXCEPT ![q].phase = "closed",
                                      ![q].calls = @ \o calls,
                                      ![q].exit = exit]
    /\ Deliver(q, calls)

\* The chain has ended: what was not read of the response body is never read.
Hangup(q) == backend' = [backend EXCEPT ![q].wire = <<>>]

\* A caller of the factory's api object asks a question.
ApiStreamChat(f, toks) ==
    /\ StreamChat(api, "direct", f, "hi", <<>>, toks)
    /\ UNCHANGED <<core, localStorage, modal, pdfUpload, isVercel, apiKey, storedPDFData, sessionStorage, uploads, chat>>

ApiSendMessage(f) ==
    /\ SendMessage(api, "direct", f, "hi", <<>>)
    /\ UNCHANGED <<core, localStorage, modal, pdfUpload, isVercel, apiKey, storedPDFData, sessionStorage, uploads, chat>>

\* The axios.post of sendMessage settles.
SendSettle(q, ok) ==
    /\ questions[q].kind = "send" /\ questions[q].phase = "fetch"
    /\ questions' = [questions EXCEPT ![q].phase = "closed",
                         ![q].exit = IF ok THEN "resolved" ELSE "rejected"]
    /\ UNCHANGED <<core, localStorage, modal, pdfUpload, isVercel, apiKey, storedPDFData, sessionStorage, uploads,
                   netlog, backend, chat>>

\* The fetch of streamChat settles: 'ok' starts readStream and the answer
\* pipeline; a response that is not ok and a rejected fetch end in the catch.
FetchResolve(q, status) ==
    /\ questions[q].kind = "stream" /\ questions[q].phase = "fetch"
    /\ ~questions[q].aborted
    /\ IF status = "ok"
       THEN /\ questions' = [questions EXCEPT ![q].phase = "read"]
            /\ backend' = [backend EXCEPT ![q].st = "Retrieving"]
            /\ UNCHANGED chat
       ELSE /\ Close(q, CatchCalls(questions[q].aborted), "error")
            /\ Hangup(q)
    /\ UNCHANGED <<core, localStorage, modal, pdfUpload, isVercel, apiKey, storedPDFData, sessionStorage, uploads, netlog>>

\* reader.read() yields the next n pieces of the response body.
Read(q, n) ==
    /\ questions[q].kind = "stream" /\ questions[q].phase = "read"
    /\ ~questions[q].aborted
    /\ n \in 1..Len(backend[q].wire)
    /\ LET r == ReadStep(questions[q].client, questions[q].buffer,
                         SubSeq(backend[q].wire, 1, n))
       IN /\ questions' = [questions EXCEPT
                 ![q].buffer = r.buffer,
                 ![q].calls = @ \o r.calls,
                 ![q].phase = IF r.returned THEN "closed" ELSE "read",
                 ![q].exit = IF r.returned THEN "marker" ELSE @]
          /\ Deliver(q, r.calls)
          /\ backend' = [backend EXCEPT
                 ![q].wire = IF r.returned THEN <<>>
                             ELSE SubSeq(@, n + 1, Len(@))]
    /\ UNCHANGED <<core, localStorage, modal, pdfUpload, isVercel, apiKey, storedPDFData, sessionStorage, uploads, netlog>>

\* reader.read() reports done: the response body has ended.
ReadEnd(q) ==
    /\ questions[q].kind = "stream" /\ questions[q].phase = "read"
    /\ ~questions[q].aborted
    /\ backend[q].wire = <<>> /\ backend[q].eof
    /\ Close(q, <<OnComplete>>, "eof")
    /\ Hangup(q)
    /\ UNCHANGED <<core, localStorage, modal, pdfUpload, isVercel, apiKey, storedPDFData, sessionStorage, uploads,
                   netlog>>

\* reader.read() rejects: the connection broke.
ReadError(q) ==
    /\ questions[q].kind = "stream" /\ questions[q].phase = "read"
    /\ ~questions[q].aborted
    /\ Close(q, CatchCalls(questions[q].aborted), "error")
    /\ Hangup(q)
    /\ UNCHANGED <<core, localStorage, modal, pdfUpload, isVercel, apiKey, storedPDFData, sessionStorage, uploads,
                   netlog>>

\* abortController.abort(); the function returned for a missing payload is
\* '() => {}'.
AbortFn(qs, q) ==
    IF qs[q].exit = "missing"
    THEN [qs EXCEPT ![q].abortCalls = @ + 1]
    ELSE [qs EXCEPT ![q].abortCalls = @ + 1, ![q].aborted = TRUE]

\* The caller of the api object invokes the abort function it was given.
ApiAbort(q) ==
    /\ questions[q].kind = "stream" /\ questions[q].owner = "direct"
    /\ InFlight(questions[q]) \/ questions[q].exit = "missing"
    /\ questions[q].abortCalls = 0
    /\ questions' = AbortFn(questions, q)
    /\ UNCHANGED <<core, localStorage, modal, pdfUpload, isVercel, apiKey, storedPDFData, sessionStorage, uploads,
                   netlog, backend, chat>>

\* After abort() the pending fetch or read rejects with an AbortError and the
\* catch runs.
AbortSettle(q) ==
    /\ questions[q].kind = "stream" /\ InFlight(questions[q])
    /\ questions[q].aborted
    /\ Close(q, CatchCalls(questions[q].aborted), "aborted")
    /\ Hangup(q)
    /\ UNCHANGED <<core, localStorage, modal, pdfUpload, isVercel, apiKey, storedPDFData, sessionStorage, uploads,
                   netlog>>

-----------------------------------------------------------------------------
(* The answer synthesizer on the server, one state machine per question:   *)
(* Idle -> Retrieving -> Generating -> Complete, Cancelled from Retrieving *)
(* or Generating, Failed with a single error event.                        *)

Emit(b, ev) ==
    [b EXCEPT !.emitted = Append(@, ev), !.wire = @ \o SSE(J(ev))]

BRunning(q) == backend[q].st \in {"Retrieving", "Generating"}

\* The response body can be written to while the client's request is open.
Connected(q) == InFlight(questions[q])

BUnchanged ==
    UNCHANGED <<core, localStorage, modal, pdfUpload, isVercel, apiKey, storedPDFData, sessionStorage, uploads,
                netlog, questions, chat>>

\* Retrieval done, the generation backend is invoked.
BRetrieve(q) ==
    /\ backend[q].st = "Retrieving"
    /\ backend' = [backend EXCEPT ![q].st = "Generating"]
    /\ BUnchanged

\* The next token of the generation backend is forwarded as a content event.
BToken(q) ==
    /\ backend[q].st = "Generating" /\ Connected(q)
    /\ backend[q].sent < Len(backend[q].toks)
    /\ backend' = [backend EXCEPT
           ![q] = [Emit(@, ContentEv(backend[q].toks[backend[q].sent + 1]))
                      EXCEPT !.sent = @ + 1]]
    /\ BUnchanged

\* The generation backend signals completion: one sources event, then the
\* end-of-stream marker, and the response body ends.
BFinish(q) ==
    /\ backend[q].st = "Generating" /\ Connected(q)
    /\ backend[q].sent = Len(backend[q].toks)
    /\ backend' = [backend EXCEPT
           ![q] = [Emit(@, SourcesEv(TwoSources)) EXCEPT
                      !.emitted = Append(@, Event("done", "", <<>>)),
                      !.wire = @ \o SSE(DONE),
                      !.st = "Complete", !.eof = TRUE]]
    /\ BUnchanged

\* Embedding, retrieval or generation fails: a single error event replaces
\* the rest of the sequence.
BFail(q) ==
    /\ BRunning(q) /\ Connected(q)
    /\ backend' = [backend EXCEPT
           ![q] = [Emit(@, ErrorEv("kind")) EXCEPT
                      !.st = "Failed", !.eof = TRUE]]
    /\ BUnchanged

\* Variant of BCancel: cancellation is observed in every state.
BCancelAnyState(q) ==
    /\ questions[q].aborted \/ ~InFlight(questions[q])
    /\ backend[q].st # "Cancelled"
    /\ backend' = [backend EXCEPT ![q].st = "Cancelled", ![q].eof = TRUE]
    /\ BUnchanged

\* The caller closed its side of the stream; observed at the next yield point.
BCancel(q) ==
    /\ BRunning(q)
    /\ questions[q].aborted \/ ~InFlight(questions[q])
    /\ backend' = [backend EXCEPT ![q].st = "Cancelled", ![q].eof = TRUE]
    /\ BUnchanged

-----------------------------------------------------------------------------
(* ChatInterface *)

InputTexts == {"", " ", "hi"}

\* String.prototype.trim() on the input texts
TrimInput(t) == IF t = " " THEN "" ELSE t

\* import { apiClient } from '../services/api'
ChatInterfaceClient == "server"

\* onChange of the input field, which is disabled while streaming
SetInput(t) ==
    /\ chat.page = "chat" /\ ~chat.isStreaming
    /\ chat.input # t
    /\ chat' = [chat EXCEPT !.input = t]
    /\ UNCHANGED <<core, localStorage, modal, pdfUpload, isVercel, apiKey, storedPDFData, sessionStorage, uploads,
                   netlog, questions, backend>>

\* Variant of HandleSubmit: the history passed includes the new user message.
HandleSubmitWithSelf(toks) ==
    /\ chat.page = "chat"
    /\ IF TrimInput(chat.input) = "" \/ apiKey = "" \/ chat.isStreaming
       THEN UNCHANGED <<netlog, questions, backend, chat>>
       ELSE /\ StreamChat(ChatInterfaceClient, "chat", chat.fileId,
                          TrimInput(chat.input),
                          chat.messages \o
                              <<ChatMessage("user", <<TrimInput(chat.input)>>, <<>>)>>,
                          toks)
            /\ chat' = [chat EXCEPT
                   !.messages = @ \o
                       <<ChatMessage("user", <<TrimInput(chat.input)>>, <<>>),
                         ChatMessage("assistant", <<>>, <<>>)>>,
                   !.input = "",
                   !.error = "",
                   !.isStreaming = TRUE,
                   !.currentSources = <<>>,
                   !.abortStreamRef = Len(questions) + 1]
    /\ UNCHANGED <<core, localStorage, modal, pdfUpload, isVercel, apiKey, storedPDFData, sessionStorage, uploads>>

\* Variant of HandleSubmit: setCurrentSources([]) is missing.
HandleSubmitKeepsSources(toks) ==
    /\ chat.page = "chat"
    /\ IF TrimInput(chat.input) = "" \/ apiKey = "" \/ chat.isStreaming
       THEN UNCHANGED <<netlog, questions, backend, chat>>
       ELSE /\ StreamChat(ChatInterfaceClient, "chat", chat.fileId,
                          TrimInput(chat.input), chat.messages, toks)
            /\ chat' = [chat EXCEPT
                   !.messages = @ \o
                       <<ChatMessage("user", <<TrimInput(chat.input)>>, <<>>),
                         ChatMessage("assistant", <<>>, <<>>)>>,
                   !.input = "",
                   !.error = "",
                   !.isStreaming = TRUE,
                   !.abortStreamRef = Len(questions) + 1]
    /\ UNCHANGED <<core, localStorage, modal, pdfUpload, isVercel, apiKey, storedPDFData, sessionStorage, uploads>>

\* Variant of HandleSubmit: the input is tested without trim().
HandleSubmitUntrimmed(toks) ==
    /\ chat.page = "chat"
    /\ IF chat.input = "" \/ apiKey = "" \/ chat.isStreaming
       THEN UNCHANGED <<netlog, questions, backend, chat>>
       ELSE /\ StreamChat(ChatInterfaceClient, "chat", chat.fileId,
                          TrimInput(chat.input), chat.messages, toks)
            /\ chat' = [chat EXCEPT
                   !.messages = @ \o
                       <<ChatMessage("user", <<TrimInput(chat.input)>>, <<>>),
                         ChatMessage("assistant", <<>>, <<>>)>>,
                   !.input = "",
                   !.error = "",
                   !.isStreaming = TRUE,
                   !.currentSources = <<>>,
                   !.abortStreamRef = Len(questions) + 1]
    /\ UNCHANGED <<core, localStorage, modal, pdfUpload, isVercel, apiKey, storedPDFData, sessionStorage, uploads>>

\* ChatInterface.handleSubmit
HandleSubmit(toks) ==
    /\ chat.page = "chat"
    /\ IF TrimInput(chat.input) = "" \/ apiKey = "" \/ chat.isStreaming
       THEN UNCHANGED <<netlog, questions, backend, chat>>
       ELSE /\ StreamChat(ChatInterfaceClient, "chat", chat.fileId,
                          TrimInput(chat.input), chat.messages, toks)
            /\ chat' = [chat EXCEPT
                   !.messages = @ \o
                       <<ChatMessage("user", <<TrimInput(chat.input)>>, <<>>),
                         ChatMessage("assistant", <<>>, <<>>)>>,
                   !.input = "",
                   !.error = "",
                   !.isStreaming = TRUE,
                   !.currentSources = <<>>,
                   !.abortStreamRef = Len(questions) + 1]
    /\ UNCHANGED <<core, localStorage, modal, pdfUpload, isVercel, apiKey, storedPDFData, sessionStorage, uploads>>

\* Variant of HandleStopStreaming: setIsStreaming(false) is missing.
HandleStopStreamingKeepsStreaming ==
    /\ chat.page = "chat" /\ chat.isStreaming
    /\ IF chat.abortStreamRef # 0
       THEN /\ questions' = AbortFn(questions, chat.abortStreamRef)
            /\ chat' = [chat EXCEPT !.abortStreamRef = 0]
       ELSE UNCHANGED <<questions, chat>>
    /\ UNCHANGED <<core, localStorage, modal, pdfUpload, isVercel, apiKey, storedPDFData, sessionStorage, uploads,
                   netlog, backend>>

\* The Stop button, rendered while isStreaming
HandleStopStreaming ==
    /\ chat.page = "chat" /\ chat.isStreaming
    /\ IF chat.abortStreamRef # 0
       THEN /\ questions' = AbortFn(questions, chat.abortStreamRef)
            /\ chat' = [chat EXCEPT !.abortStreamRef = 0,
                                    !.isStreaming = FALSE]
       ELSE UNCHANGED <<questions, chat>>
    /\ UNCHANGED <<core, localStorage, modal, pdfUpload, isVercel, apiKey, storedPDFData, sessionStorage, uploads,
                   netlog, backend>>

-----------------------------------------------------------------------------
(* PDFUpload: component state and the files handed to it *)

\* maxSize of handleFileUpload, in bytes
MaxFileSize == 10 * 1024 * 1024

\* A File: its type, its size and the document it holds
File(type, size, doc) == [type |-> type, size |-> size, doc |-> doc]

Files ==
    {File(type, size, doc) :
        type \in {"application/pdf", "text/plain"},
        size \in {MaxFileSize, MaxFileSize + 1},
        doc \in {"blank", "text"}}

\* e.dataTransfer.files of a drop
Drops == {<<>>} \cup {<<f>> : f \in Files} \cup {<<f, g>> : f, g \in Files}

\* A null error and a null uploadedFile are the empty string.  calls are
\* the uploadPDF calls (indices of uploads) that this instance awaits,
\* intervals the calls whose progressInterval this instance has set and not
\* cleared.
PDFUploadInit ==
    [isDragging |-> FALSE, isUploading |-> FALSE, error |-> "",
     uploadedFile |-> "", isSuccess |-> FALSE, calls |-> {},
     uploadProgress |-> 0, intervals |-> {}]

-----------------------------------------------------------------------------
(* ApiKeyModal and HomePage's handling of the key *)

\* The texts typed into the key field
KeyTexts ==
    {"", " ", "sk-", "sk-key", "sk-key ", " sk-key", "invalid", "xsk-"}

\* The characters of a text
Chars(t) ==
    CASE t = "" -> <<>>
      [] t = " " -> <<" ">>
      [] t = "sk-" -> <<"s", "k", "-">>
      [] t = "sk-key" -> <<"s", "k", "-", "k", "e", "y">>
      [] t = "sk-key " -> <<"s", "k", "-", "k", "e", "y", " ">>
      [] t = " sk-key" -> <<" ", "s", "k", "-", "k", "e", "y">>
      [] t = "invalid" -> <<"i", "n", "v", "a", "l", "i", "d">>
      [] t = "xsk-" -> <<"x", "s", "k", "-">>

\* The text of a sequence of characters
Text(cs) == CHOOSE t \in KeyTexts : Chars(t) = cs

RECURSIVE TrimStart(_)
TrimStart(cs) ==
    IF cs # <<>> /\ Head(cs) = " " THEN TrimStart(Tail(cs)) ELSE cs

RECURSIVE TrimEnd(_)
TrimEnd(cs) ==
    IF cs # <<>> /\ cs[Len(cs)] = " "
    THEN TrimEnd(SubSeq(cs, 1, Len(cs) - 1)) ELSE cs

\* String.prototype.trim() on a key text
TrimKey(t) == Text(TrimEnd(TrimStart(Chars(t))))

\* Variant of StartsWith: the prefix is looked for anywhere in the text.
Includes(t, prefix) ==
    \E i \in 1..Len(Chars(t)) :
        /\ i + Len(Chars(prefix)) - 1 <= Len(Chars(t))
        /\ SubSeq(Chars(t), i, i + Len(Chars(prefix)) - 1) = Chars(prefix)

\* String.prototype.startsWith()
StartsWith(t, prefix) ==
    /\ Len(Chars(t)) >= Len(Chars(prefix))
    /\ SubSeq(Chars(t), 1, Len(Chars(prefix))) = Chars(prefix)

\* ApiKeyModal as mounted by HomePage: isOpen is HomePage's
\* isApiKeyModalOpen; onSubmit is the set of keys that onSubmit has been
\* called with.
ModalInit(open) ==
    [isOpen |-> open, apiKey |-> "", error |-> "", onSubmit |-> {}]

\* HomePage mounts: useState(!apiKey); PDFUpload mounts with it.
HomePageMount(key) ==
    /\ modal' = [ModalInit(key = "") EXCEPT !.onSubmit = modal.onSubmit]
    /\ pdfUpload' = PDFUploadInit

HomeUnchanged ==
    UNCHANGED <<core, pdfUpload, isVercel, storedPDFData, sessionStorage,
                uploads, netlog, questions, backend, chat>>

\* 'Get Started' / 'Change API Key': setIsApiKeyModalOpen(true); the effect
\* on isOpen empties the field and the error.
OpenModal ==
    /\ chat.page = "home" /\ ~modal.isOpen
    /\ modal' = [modal EXCEPT !.isOpen = TRUE, !.apiKey = "", !.error = ""]
    /\ UNCHANGED <<apiKey, localStorage>>
    /\ HomeUnchanged

\* 'Cancel': onClose = () => apiKey && setIsApiKeyModalOpen(false)
CloseModal ==
    /\ chat.page = "home" /\ modal.isOpen
    /\ modal' = [modal EXCEPT !.isOpen = (apiKey = "")]
    /\ UNCHANGED <<apiKey, localStorage>>
    /\ HomeUnchanged

\* onChange of the key field: setApiKey(e.target.value)
ModalSetApiKey(t) ==
    /\ chat.page = "home" /\ modal.isOpen
    /\ modal.apiKey # t
    /\ modal' = [modal EXCEPT !.apiKey = t]
    /\ UNCHANGED <<apiKey, localStorage>>
    /\ HomeUnchanged

-----------------------------------------------------------------------------
(* ApiKeyProvider, ChatPage and navigation *)

\* Variant of SubmitApiKey: a key is accepted when it contains "sk-".
SubmitApiKeyIncludes ==
    /\ chat.page = "home" /\ modal.isOpen
    /\ IF TrimKey(modal.apiKey) = ""
       THEN /\ modal' = [modal EXCEPT !.error = "Please enter your API key"]
            /\ UNCHANGED <<apiKey, localStorage>>
       ELSE IF ~Includes(modal.apiKey, "sk-")
       THEN /\ modal' = [modal EXCEPT !.error =
                   "Invalid API key format. OpenAI API keys start with \"sk-\""]
            /\ UNCHANGED <<apiKey, localStorage>>
       ELSE /\ localStorage' = TrimKey(modal.apiKey)
            /\ apiKey' = TrimKey(modal.apiKey)
            /\ modal' = [modal EXCEPT !.isOpen = FALSE,
                                      !.onSubmit = @ \cup {TrimKey(modal.apiKey)}]
    /\ HomeUnchanged

\* ApiKeyModal.handleSubmit; for a valid key onSubmit(apiKey.trim()) is
\* HomePage.handleApiKeySubmit: setApiKey (localStorage and provider state)
\* and setIsApiKeyModalOpen(false).
SubmitApiKey ==
    /\ chat.page = "home" /\ modal.isOpen
    /\ IF TrimKey(modal.apiKey) = ""
       THEN /\ modal' = [modal EXCEPT !.error = "Please enter your API key"]
            /\ UNCHANGED <<apiKey, localStorage>>
       ELSE IF ~StartsWith(modal.apiKey, "sk-")
       THEN /\ modal' = [modal EXCEPT !.error =
                   "Invalid API key format. OpenAI API keys start with \"sk-\""]
            /\ UNCHANGED <<apiKey, localStorage>>
       ELSE /\ localStorage' = TrimKey(modal.apiKey)
            /\ apiKey' = TrimKey(modal.apiKey)
            /\ modal' = [modal EXCEPT !.isOpen = FALSE,
                                      !.onSubmit = @ \cup {TrimKey(modal.apiKey)}]
    /\ HomeUnchanged

\* Callbacks of a component that is no longer mounted change nothing.
Unmounted(qs) ==
    [i \in 1..Len(qs) |->
        IF qs[i].owner = "chat" THEN [qs[i] EXCEPT !.owner = "gone"] ELSE qs[i]]

\* ChatPage mounts for /chat/<f>: apiClient.getFileStatus(fileId, apiKey);
\* a failed lookup navigates back to the upload page.
MountChatPage(f, ok) ==
    /\ netlog' = netlog \cup
           {Requests("ChatPage", "server", "/upload/pdf/:id/status", f, None)}
    /\ chat' = IF ok THEN ChatInit("chat", f) ELSE ChatInit("home", "")
    /\ questions' = Unmounted(questions)
    /\ HomePageMount(apiKey)

\* The user opens /chat/<f>.
NavigateChat(f, ok) ==
    /\ chat.page = "home" /\ apiKey # ""
    /\ MountChatPage(f, ok)
    /\ UNCHANGED <<core, localStorage, isVercel, apiKey, storedPDFData,
                   sessionStorage, uploads, backend>>

\* 'Back to upload'
NavigateHome ==
    /\ chat.page = "chat"
    /\ chat' = ChatInit("home", "")
    /\ questions' = Unmounted(questions)
    /\ HomePageMount(apiKey)
    /\ UNCHANGED <<core, localStorage, isVercel, apiKey, storedPDFData,
                   sessionStorage, uploads, netlog, backend>>

-----------------------------------------------------------------------------
(* PDFUpload and the upload methods of the two clients *)

\* One uploadPDF call; data is response.data once the request has resolved.
\* notified: the timer of the success branch has fired or is gone;
\* onFileUploaded: the arguments of the calls of onFileUploaded made for it.
Upload(client, doc) ==
    [client |-> client, doc |-> doc, status |-> "pending", file_id |-> "",
     data |-> None, notified |-> FALSE, onFileUploaded |-> <<>>]

\* An upload of P1 that has completed and whose chat page has been opened.
FirstUpload(client) ==
    [Upload(client, "text") EXCEPT !.status = "ok", !.file_id = "f1",
                                   !.data = P1, !.notified = TRUE,
                                   !.onFileUploaded = <<"f1">>]

UploadEndpoint(client) ==
    IF client = "server" THEN "/upload/pdf" ELSE "/stateless/upload/process"

\* Ingestion on the server: a document whose every page is blank fails with
\* EmptyDocumentError; any ingestion may fail in the embedding backend.
IngestOutcomes(doc) == IF doc = "blank" THEN {"error"} ELSE {"ok", "error"}

\* this.storedPDFData.set(response.data.file_id, response.data)
StoreUpload(m, data) == MapSet(m, data.file_id, data)

\* Variant of HandleFileUpload: the size of the file is not looked at.
HandleFileUploadAnySize(pu, file) ==
    IF apiKey = ""
    THEN /\ pdfUpload' = [pu EXCEPT !.error = "API key is required"]
         /\ UNCHANGED uploads
    ELSE IF file.type # "application/pdf"
    THEN /\ pdfUpload' = [pu EXCEPT !.error = "Please select a PDF file"]
         /\ UNCHANGED uploads
    ELSE /\ uploads' = Append(uploads, Upload(api, file.doc))
         /\ pdfUpload' = [pu EXCEPT !.error = "", !.isUploading = TRUE,
                                    !.uploadProgress = 0,
                                    !.uploadedFile = file.doc,
                                    !.intervals = @ \cup {Len(uploads) + 1},
                                    !.calls = @ \cup {Len(uploads) + 1}]

\* PDFUpload.handleFileUpload up to the await, pu being the component state
\* it starts from: the key, the type and the size of the file are checked,
\* then progressInterval is set and apiClient.uploadPDF(file, apiKey) is
\* called, where apiClient is the factory's api.
HandleFileUpload(pu, file) ==
    IF apiKey = ""
    THEN /\ pdfUpload' = [pu EXCEPT !.error = "API key is required"]
         /\ UNCHANGED uploads
    ELSE IF file.type # "application/pdf"
    THEN /\ pdfUpload' = [pu EXCEPT !.error = "Please select a PDF file"]
         /\ UNCHANGED uploads
    ELSE IF file.size > MaxFileSize
    THEN /\ pdfUpload' = [pu EXCEPT !.error = "File size must be less than 10MB"]
         /\ UNCHANGED uploads
    ELSE /\ uploads' = Append(uploads, Upload(api, file.doc))
         /\ pdfUpload' = [pu EXCEPT !.error = "", !.isUploading = TRUE,
                                    !.uploadProgress = 0,
                                    !.uploadedFile = file.doc,
                                    !.intervals = @ \cup {Len(uploads) + 1},
                                    !.calls = @ \cup {Len(uploads) + 1}]

PDFUploadUnchanged ==
    UNCHANGED <<core, localStorage, modal, isVercel, apiKey, storedPDFData,
                sessionStorage, netlog, questions, backend, chat>>

\* Variant of CanChooseFile: the drop zone and the file input stay usable
\* while isUploading.
CanChooseFileWhileUploading ==
    chat.page = "home" /\ ~pdfUpload.isSuccess

\* The drop zone is rendered unless isSuccess; while isUploading it takes no
\* pointer events and the file input is disabled.
CanChooseFile ==
    chat.page = "home" /\ ~pdfUpload.isUploading /\ ~pdfUpload.isSuccess

\* onChange of the file input: handleFileUpload(e.target.files[0])
HandleFileSelect(file) ==
    /\ CanChooseFile
    /\ HandleFileUpload(pdfUpload, file)
    /\ PDFUploadUnchanged

\* files.find(file => file.type === 'application/pdf'): its index, or 0
FindPdf(files) ==
    IF \E i \in 1..Len(files) : files[i].type = "application/pdf"
    THEN CHOOSE i \in 1..Len(files) :
             /\ files[i].type = "application/pdf"
             /\ \A j \in 1..(i - 1) : files[j].type # "application/pdf"
    ELSE 0

HandleDragEnter ==
    /\ CanChooseFile /\ ~pdfUpload.isDragging
    /\ pdfUpload' = [pdfUpload EXCEPT !.isDragging = TRUE]
    /\ UNCHANGED uploads
    /\ PDFUploadUnchanged

HandleDragLeave ==
    /\ CanChooseFile /\ pdfUpload.isDragging
    /\ pdfUpload' = [pdfUpload EXCEPT !.isDragging = FALSE]
    /\ UNCHANGED uploads
    /\ PDFUploadUnchanged

\* onDrop: the first PDF among the dropped files is uploaded.
HandleDrop(files) ==
    /\ CanChooseFile
    /\ LET pu == [pdfUpload EXCEPT !.isDragging = FALSE] IN
       IF FindPdf(files) # 0
       THEN HandleFileUpload(pu, files[FindPdf(files)])
       ELSE /\ pdfUpload' = [pu EXCEPT !.error = "Please select a PDF file"]
            /\ UNCHANGED uploads
    /\ PDFUploadUnchanged

\* handleFileUpload is called with a PDF of admissible size.
UploadStart(doc) ==
    /\ chat.page = "home" /\ apiKey # ""
    /\ HandleFileUpload(pdfUpload, File("application/pdf", MaxFileSize, doc))
    /\ PDFUploadUnchanged

\* The catch of handleFileUpload in the instance that awaits call u; a
\* component that is no longer mounted keeps no state.
CatchUpload(u) ==
    pdfUpload' = IF u \in pdfUpload.calls
                 THEN [pdfUpload EXCEPT !.error = "err.message",
                                        !.isUploading = FALSE,
                                        !.uploadProgress = 0,
                                        !.calls = @ \ {u}]
                 ELSE pdfUpload

\* handleFileUpload after the await of call u has returned:
\* clearInterval(progressInterval); setUploadProgress(100).
AfterAwait(u) ==
    pdfUpload' = IF u \in pdfUpload.calls
                 THEN [pdfUpload EXCEPT !.uploadProgress = 100,
                                        !.intervals = @ \ {u}]
                 ELSE pdfUpload

\* progressInterval of call u fires:
\* setUploadProgress(prev => Math.min(prev + 10, 90))
ProgressTick(u) ==
    /\ chat.page = "home" /\ u \in pdfUpload.intervals
    /\ pdfUpload' = [pdfUpload EXCEPT !.uploadProgress =
                         IF @ + 10 < 90 THEN @ + 10 ELSE 90]
    /\ UNCHANGED uploads
    /\ PDFUploadUnchanged

\* Variant of UploadSucceed: requests in flight share the stored payload and
\* see its replacement.
UploadSucceedShared(u, data) ==
    /\ uploads[u].status = "pending"
    /\ "ok" \in IngestOutcomes(uploads[u].doc)
    /\ uploads' = [uploads EXCEPT ![u].status = "ok",
                                  ![u].file_id = data.file_id,
                                  ![u].data = data]
    /\ netlog' = netlog \cup
           {Requests("PDFUpload", uploads[u].client,
                     UploadEndpoint(uploads[u].client), data.file_id, None)}
    /\ IF uploads[u].client = "stateless"
       THEN /\ storedPDFData' = StoreUpload(storedPDFData, data)
            /\ sessionStorage' = SaveToSession(storedPDFData')
       ELSE UNCHANGED <<storedPDFData, sessionStorage>>
    /\ questions' = [q \in 1..Len(questions) |->
           IF /\ InFlight(questions[q])
              /\ questions[q].client = "stateless"
              /\ questions[q].fileId = data.file_id
           THEN [questions[q] EXCEPT !.request =
                    StatelessChatRequest(@.message, data, @.history)]
           ELSE questions[q]]
    /\ AfterAwait(u)
    /\ UNCHANGED <<core, localStorage, modal, isVercel, apiKey, backend, chat>>

\* The upload request resolves with response.data = data.  The stateless
\* client stores the payload and saves the Map to sessionStorage.
UploadSucceed(u, data) ==
    /\ uploads[u].status = "pending"
    /\ "ok" \in IngestOutcomes(uploads[u].doc)
    /\ uploads' = [uploads EXCEPT ![u].status = "ok",
                                  ![u].file_id = data.file_id,
                                  ![u].data = data]
    /\ netlog' = netlog \cup
           {Requests("PDFUpload", uploads[u].client,
                     UploadEndpoint(uploads[u].client), data.file_id, None)}
    /\ IF uploads[u].client = "stateless"
       THEN /\ storedPDFData' = StoreUpload(storedPDFData, data)
            /\ sessionStorage' = SaveToSession(storedPDFData')
       ELSE UNCHANGED <<storedPDFData, sessionStorage>>
    /\ AfterAwait(u)
    /\ UNCHANGED <<core, localStorage, modal, isVercel, apiKey, questions, backend, chat>>

\* The upload request resolves with response.data = data, the stateless
\* client stores the payload, and sessionStorage.setItem throws because the
\* item does not fit the storage quota: saveToSession has no try, so
\* uploadAndProcessPDF rejects and the catch of handleFileUpload runs.
UploadUnsaved(u, data) ==
    /\ uploads[u].status = "pending" /\ uploads[u].client = "stateless"
    /\ "ok" \in IngestOutcomes(uploads[u].doc)
    /\ uploads' = [uploads EXCEPT ![u].status = "failed"]
    /\ netlog' = netlog \cup
           {Requests("PDFUpload", uploads[u].client,
                     UploadEndpoint(uploads[u].client), data.file_id, None)}
    /\ storedPDFData' = StoreUpload(storedPDFData, data)
    /\ CatchUpload(u)
    /\ UNCHANGED <<core, localStorage, modal, isVercel, apiKey,
                   sessionStorage, questions, backend, chat>>

\* Variant of UploadFail: an entry is registered for the upload before its
\* response is known and is left behind when the request rejects.
UploadFailStores(u) ==
    /\ uploads[u].status = "pending"
    /\ "error" \in IngestOutcomes(uploads[u].doc)
    /\ uploads' = [uploads EXCEPT ![u].status = "failed"]
    /\ storedPDFData' = MapSet(storedPDFData, "f2", Payload("f2", <<>>, <<>>, <<>>))
    /\ sessionStorage' = SaveToSession(storedPDFData')
    /\ CatchUpload(u)
    /\ UNCHANGED <<core, localStorage, modal, isVercel, apiKey, netlog,
                   questions, backend, chat>>

\* The upload request rejects: the await throws before anything is stored
\* and the catch of handleFileUpload shows the error.
UploadFail(u) ==
    /\ uploads[u].status = "pending"
    /\ "error" \in IngestOutcomes(uploads[u].doc)
    /\ uploads' = [uploads EXCEPT ![u].status = "failed"]
    /\ CatchUpload(u)
    /\ UNCHANGED <<core, localStorage, modal, isVercel, apiKey, storedPDFData,
                   sessionStorage, netlog, questions, backend, chat>>

\* Variant of UploadNotify: the parent is notified of failed uploads as well.
UploadNotifyAny(u, ok) ==
    /\ uploads[u].status \in {"ok", "failed"} /\ ~uploads[u].notified
    /\ uploads' = [uploads EXCEPT ![u].notified = TRUE,
                                  ![u].onFileUploaded =
                                      Append(@, uploads[u].file_id)]
    /\ MountChatPage(uploads[u].file_id, ok)
    /\ UNCHANGED <<core, localStorage, isVercel, apiKey, storedPDFData,
                   sessionStorage, backend>>

\* The timer of a successful upload fires: onFileUploaded(response.file_id),
\* HomePage.handleFileUploaded navigates to /chat/<file_id>.
UploadNotify(u, ok) ==
    /\ uploads[u].status = "ok" /\ ~uploads[u].notified
    /\ uploads' = [uploads EXCEPT ![u].notified = TRUE,
                                  ![u].onFileUploaded =
                                      Append(@, uploads[u].file_id)]
    /\ MountChatPage(uploads[u].file_id, ok)
    /\ UNCHANGED <<core, localStorage, isVercel, apiKey, storedPDFData,
                   sessionStorage, backend>>

\* StatelessAPIClient.clearStoredData
ClearStoredData ==
    /\ api = "stateless"
    /\ storedPDFData # <<>> \/ sessionStorage # None
    /\ storedPDFData' = <<>>
    /\ sessionStorage' = None
    /\ UNCHANGED <<core, localStorage, modal, pdfUpload, isVercel, apiKey, uploads, netlog, questions, backend, chat>>

\* The page is loaded again: the module of the stateless client is evaluated
\* anew (constructor -> restoreFromSession), every pending promise chain and
\* component of the old page is gone, ApiKeyProvider takes its state from
\* localStorage.getItem('rag_chat_api_key').
Reload ==
    /\ storedPDFData' = RestoreFromSession(sessionStorage)
    /\ questions' = [i \in 1..Len(questions) |->
           IF InFlight(questions[i])
           THEN [questions[i] EXCEPT !.phase = "closed", !.exit = "unloaded",
                                     !.owner = "gone"]
           ELSE [questions[i] EXCEPT !.owner =
                     IF @ = "chat" THEN "gone" ELSE @]]
    /\ uploads' = [i \in 1..Len(uploads) |->
           IF uploads[i].status = "pending"
           THEN [uploads[i] EXCEPT !.status = "unloaded"]
           ELSE [uploads[i] EXCEPT !.notified = TRUE]]
    /\ chat' = ChatInit("home", "")
    /\ backend' = [i \in 1..Len(backend) |-> [backend[i] EXCEPT !.wire = <<>>]]
    /\ apiKey' = localStorage
    /\ HomePageMount(localStorage)
    /\ UNCHANGED <<core, localStorage, isVercel, sessionStorage, netlog>>

-----------------------------------------------------------------------------
(* Steps of a question that the specifications share *)

ClientSteps ==
    \/ \E q \in Qs, status \in {"ok", "http", "net"} : FetchResolve(q, status)
    \/ \E q \in Qs : \E n \in 1..Len(backend[q].wire) : Read(q, n)
    \/ \E q \in Qs : ReadEnd(q)
    \/ \E q \in Qs : ReadError(q)
    \/ \E q \in Qs : AbortSettle(q)

BackendSteps ==
    \/ \E q \in Qs : BRetrieve(q)
    \/ \E q \in Qs : BToken(q)
    \/ \E q \in Qs : BFinish(q)
    \/ \E q \in Qs : BFail(q)
    \/ \E q \in Qs : BCancel(q)

\* No question of an earlier call is still running.
AllClosed == \A q \in Qs : ~InFlight(questions[q])

-----------------------------------------------------------------------------
(* The ingestion and retrieval core on the server: Chunker and Retriever.   *)
(* core holds one call: its arguments and, once made, its result.           *)

CoreIdle == [fn |-> "idle", args |-> <<>>, done |-> FALSE, out |-> <<>>]

Alphabet ==
    <<"A", "B", "C", "D", "E", "F", "G", "H", "I", "J", "K", "L", "M",
      "N", "O", "P", "Q", "R", "S", "T", "U", "V", "W", "X", "Y", "Z">>

\* A page text of n characters
PageText(n) == SubSeq(Alphabet, 1, n)

Min(a, b) == IF a <= b THEN a ELSE b

Chunk(text, ordinal, offset) ==
    [text |-> text, ordinal |-> ordinal, offset |-> offset]

\* Variant of ChunkFrom: a window is emitted at every offset below the
\* length of the text.
RECURSIVE ChunkFromAll(_, _, _, _, _)
ChunkFromAll(text, size, overlap, start, ordinal) ==
    IF start >= Len(text) THEN <<>>
    ELSE LET end == Min(start + size, Len(text)) IN
         <<Chunk(SubSeq(text, start + 1, end), ordinal, start)>>
             \o ChunkFromAll(text, size, overlap, start + size - overlap,
                             ordinal + 1)

\* Variant of ChunkFrom: the window advances by chunk_size.
RECURSIVE ChunkFromNoOverlap(_, _, _, _, _)
ChunkFromNoOverlap(text, size, overlap, start, ordinal) ==
    IF start >= Len(text) THEN <<>>
    ELSE LET end == Min(start + size, Len(text)) IN
         <<Chunk(SubSeq(text, start + 1, end), ordinal, start)>>
             \o (IF end = Len(text) THEN <<>>
                 ELSE ChunkFromNoOverlap(text, size, overlap, start + size,
                                         ordinal + 1))

\* The windows of a page from offset start on: windows of chunk_size
\* characters, advancing by chunk_size - overlap; the window that reaches
\* the end of the text is the last and is kept as it is.
RECURSIVE ChunkFrom(_, _, _, _, _)
ChunkFrom(text, size, overlap, start, ordinal) ==
    IF start >= Len(text) THEN <<>>
    ELSE LET end == Min(start + size, Len(text)) IN
         <<Chunk(SubSeq(text, start + 1, end), ordinal, start)>>
             \o (IF end = Len(text) THEN <<>>
                 ELSE ChunkFrom(text, size, overlap, start + size - overlap,
                                ordinal + 1))

\* chunk() on one page; overlap < chunk_size is the precondition.
ChunkPage(text, size, overlap) ==
    IF overlap >= size
    THEN [error |-> "ConfigurationError", chunks |-> <<>>]
    ELSE [error |-> "", chunks |-> ChunkFrom(text, size, overlap, 0, 1)]

\* Embedding vectors with integral norms, the zero vector among them
Vectors == {<<0, 0>>, <<1, 0>>, <<0, 1>>, <<3, 4>>, <<-1, 0>>}

Dot(a, b) == a[1] * b[1] + a[2] * b[2]

Norm(v) == CHOOSE n \in 0..Dot(v, v) : n * n = Dot(v, v)

\* Cosine similarity in hundredths; a zero-norm vector has similarity 0 to
\* everything.
Similarity(q, v) ==
    IF Norm(q) = 0 \/ Norm(v) = 0 THEN 0
    ELSE (100 * Dot(q, v)) \div (Norm(q) * Norm(v))

\* relevance_score: the similarity clamped to [0, 1]
RelevanceScore(sim) == IF sim < 0 THEN 0 ELSE sim

Candidate(chunk, vector) == [chunk |-> chunk, vector |-> vector]

Scored(q, cands) ==
    [i \in 1..Len(cands) |->
        [chunk |-> cands[i].chunk, ordinal |-> i,
         sim |-> Similarity(q, cands[i].vector)]]

\* Variant of InsertRanked: a candidate goes before those of equal similarity.
RECURSIVE InsertRankedBeforeEqual(_, _)
InsertRankedBeforeEqual(sorted, c) ==
    IF sorted = <<>> THEN <<c>>
    ELSE IF Head(sorted).sim > c.sim
         THEN <<Head(sorted)>> \o InsertRankedBeforeEqual(Tail(sorted), c)
         ELSE <<c>> \o sorted

\* Stable sort by descending similarity: a candidate goes behind those of
\* greater or equal similarity.
RECURSIVE InsertRanked(_, _)
InsertRanked(sorted, c) ==
    IF sorted = <<>> THEN <<c>>
    ELSE IF Head(sorted).sim >= c.sim
         THEN <<Head(sorted)>> \o InsertRanked(Tail(sorted), c)
         ELSE <<c>> \o sorted

RECURSIVE Ranked(_)
Ranked(scored) ==
    IF scored = <<>> THEN <<>>
    ELSE InsertRanked(Ranked(SubSeq(scored, 1, Len(scored) - 1)),
                      scored[Len(scored)])

\* retrieve(query_vector, candidates, k): the first min(k, len(candidates))
\* of the ranked candidates
Retrieve(q, cands, k) ==
    LET r == Ranked(Scored(q, cands)) IN
    [i \in 1..Min(k, Len(cands)) |->
        [chunk |-> r[i].chunk, ordinal |-> r[i].ordinal, sim |-> r[i].sim,
         relevance_score |-> RelevanceScore(r[i].sim)]]

\* The candidates of a call: chunk i carries the vector vs[i]
Candidates(vs) == [i \in 1..Len(vs) |-> Candidate(i, vs[i])]

\* The vectors that the embedding backend answers with
EmbeddingVector(e) ==
    CASE e = "e1" -> <<1, 0>>
      [] e = "e2" -> <<3, 4>>
      [] e = "e3" -> <<0, 1>>
      [] e = "e4" -> <<0, 0>>
      [] OTHER -> <<-1, 0>>

\* A DocumentSession is constructed from sequences of equal length only.
WellFormed(p) == Len(p.chunks) = Len(p.embeddings)

\* The candidates of a DocumentSession: load() of the server-resident store
\* on the session created at upload, and the deserialization of the payload
\* that a question of the stateless mode re-supplies.
LoadSession(p) ==
    [i \in 1..Len(p.chunks) |->
        Candidate(p.chunks[i], EmbeddingVector(p.embeddings[i]))]

VectorSeqs == UNION {[1..n -> Vectors] : n \in 0..MaxCandidates}

ChunkArgs ==
    {[text |-> PageText(n), size |-> size, overlap |-> overlap] :
        n \in 0..MaxText, size \in 1..MaxChunkSize, overlap \in 0..MaxChunkSize}

RetrieveArgs ==
    {[query |-> q, cands |-> Candidates(vs), k |-> k] :
        q \in Vectors, vs \in VectorSeqs, k \in 0..MaxK}

CoreUnchanged ==
    UNCHANGED <<localStorage, modal, pdfUpload, isVercel, apiKey,
                storedPDFData, sessionStorage, uploads, netlog, questions,
                backend, chat>>

ChunkCall ==
    /\ core.fn = "chunk" /\ ~core.done
    /\ core' = [core EXCEPT !.done = TRUE,
                   !.out = ChunkPage(core.args.text, core.args.size,
                                     core.args.overlap)]
    /\ CoreUnchanged

RetrieveCall ==
    /\ core.fn = "retrieve" /\ ~core.done
    /\ core' = [core EXCEPT !.done = TRUE,
                   !.out = Retrieve(core.args.query, core.args.cands,
                                    core.args.k)]
    /\ CoreUnchanged

InitCore ==
    /\ localStorage = ""
    /\ modal = ModalInit(TRUE)
    /\ pdfUpload = PDFUploadInit
    /\ isVercel = FALSE
    /\ apiKey = ""
    /\ storedPDFData = <<>>
    /\ sessionStorage = None
    /\ uploads = <<>>
    /\ netlog = {}
    /\ questions = <<>>
    /\ backend = <<>>
    /\ chat = ChatInit("home", "")
    /\ \/ \E a \in ChunkArgs :
             core = [fn |-> "chunk", args |-> a, done |-> FALSE, out |-> <<>>]
       \/ \E a \in RetrieveArgs :
             core = [fn |-> "retrieve", args |-> a, done |-> FALSE, out |-> <<>>]

NextCore == ChunkCall \/ RetrieveCall

SpecCore == InitCore /\ [][NextCore]_vars

-----------------------------------------------------------------------------
(* The application: the page is loaded, the user enters a key, uploads     *)
(* documents on the upload page and asks questions on the chat page.       *)

Init ==
    /\ localStorage = ""
    /\ modal = ModalInit(TRUE)
    /\ pdfUpload = PDFUploadInit
    /\ core = CoreIdle
    /\ isVercel \in BOOLEAN
    /\ apiKey = ""
    /\ storedPDFData = <<>>
    /\ sessionStorage = None
    /\ uploads = <<>>
    /\ netlog = {}
    /\ questions = <<>>
    /\ backend = <<>>
    /\ chat = ChatInit("home", "")

Next ==
    \/ ModalSetApiKey("sk-key")
    \/ SubmitApiKey
    \/ \E doc \in Docs : Len(uploads) < MaxUploads /\ UploadStart(doc)
    \/ \E u \in 1..Len(uploads), data \in ResponsePayloads : UploadSucceed(u, data)
    \/ \E u \in 1..Len(uploads) : UploadFail(u)
    \/ \E u \in 1..Len(uploads), ok \in BOOLEAN : UploadNotify(u, ok)
    \/ Reload
    \/ \E f \in FileIds, ok \in BOOLEAN : NavigateChat(f, ok)
    \/ NavigateHome
    \/ SetInput("hi")
    \/ \E toks \in TokenSeqs : Len(questions) < MaxQuestions /\ HandleSubmit(toks)
    \/ HandleStopStreaming
    \/ ClientSteps
    \/ BackendSteps

Spec == Init /\ [][Next]_vars

-----------------------------------------------------------------------------
(* The streaming protocol on its own: the key has been entered, one         *)
(* document has been uploaded through the factory's api and its chat page   *)
(* is open, or the user is back on the upload page.  On the chat page the   *)
(* questions are asked through ChatInterface; on the upload page a caller   *)
(* of the api object asks them, one after the other.  The calls share no    *)
(* state: AbortController, reader and line buffer are locals of each call.  *)

InitStream ==
    /\ localStorage = "sk-key"
    /\ modal = ModalInit(FALSE)
    /\ pdfUpload = PDFUploadInit
    /\ core = CoreIdle
    /\ isVercel \in BOOLEAN
    /\ apiKey = "sk-key"
    /\ storedPDFData = IF isVercel THEN << <<"f1", P1>> >> ELSE <<>>
    /\ sessionStorage = IF isVercel THEN SaveToSession(<< <<"f1", P1>> >>) ELSE None
    /\ uploads = <<FirstUpload(api)>>
    /\ netlog = {Requests("PDFUpload", api, UploadEndpoint(api), "f1", None),
                 Requests("ChatPage", "server", "/upload/pdf/:id/status", "f1", None)}
    /\ questions = <<>>
    /\ backend = <<>>
    /\ chat \in {ChatInit("chat", "f1"), ChatInit("home", "")}

CanAsk == Len(questions) < MaxQuestions

NextStream ==
    \/ SetInput("hi")
    \/ \E toks \in TokenSeqs : CanAsk /\ HandleSubmit(toks)
    \/ HandleStopStreaming
    \/ \E f \in FileIds, toks \in TokenSeqs :
          CanAsk /\ AllClosed /\ chat.page = "home" /\ ApiStreamChat(f, toks)
    \/ \E q \in Qs : ApiAbort(q)
    \/ ClientSteps
    \/ BackendSteps

SpecStream == InitStream /\ [][NextStream]_vars

-----------------------------------------------------------------------------
(* The client-resident session store on its own: a stateless deployment,    *)
(* the key entered and a first document uploaded.  Further documents are     *)
(* uploaded and questions are asked through the api object while uploads    *)
(* are pending.  The answer itself is left out: a question ends by an       *)
(* error or by its abort.                                                   *)

InitStore ==
    /\ localStorage = "sk-key"
    /\ modal = ModalInit(FALSE)
    /\ pdfUpload = PDFUploadInit
    /\ core = CoreIdle
    /\ isVercel = TRUE
    /\ apiKey = "sk-key"
    /\ storedPDFData = StoreUpload(<<>>, P1)
    /\ sessionStorage = SaveToSession(storedPDFData)
    /\ uploads = <<FirstUpload("stateless")>>
    /\ netlog = {Requests("PDFUpload", "stateless", UploadEndpoint("stateless"),
                          "f1", None)}
    /\ questions = <<>>
    /\ backend = <<>>
    /\ chat = ChatInit("home", "")

NextStore ==
    \/ \E doc \in Docs : Len(uploads) < 1 + MaxUploads /\ UploadStart(doc)
    \/ \E u \in 1..Len(uploads), data \in ResponsePayloads : UploadSucceed(u, data)
    \/ \E u \in 1..Len(uploads) : UploadFail(u)
    \/ ClearStoredData
    \/ Reload
    \/ \E f \in FileIds, toks \in TokenSeqs :
          Len(questions) < MaxQuestions /\ ApiStreamChat(f, toks)
    \/ \E f \in FileIds : Len(questions) < MaxQuestions /\ ApiSendMessage(f)
    \/ \E q \in Qs, ok \in BOOLEAN : SendSettle(q, ok)
    \/ \E q \in Qs, status \in {"ok", "http", "net"} : FetchResolve(q, status)
    \/ \E q \in Qs : ReadError(q)
    \/ \E q \in Qs : ApiAbort(q)
    \/ \E q \in Qs : AbortSettle(q)

SpecStore == InitStore /\ [][NextStore]_vars

\* StatelessAPIClientWrapper.getFileStatus: what the call resolves with.
\* The counts and the time of the status are left out.
GetFileStatus(m, fileId) ==
    IF MapGet(m, fileId) = None
    THEN [file_id |-> fileId, status |-> "completed", filename |-> "Document"]
    ELSE [file_id |-> fileId, status |-> "completed",
          filename |-> "pdfData.filename"]

\* api.getFileStatus(fileId, apiKey) is called on the stateless client.
GetFileStatusCall(fileId) ==
    /\ api = "stateless"
    /\ core' = [fn |-> "getFileStatus", args |-> [fileId |-> fileId],
                done |-> TRUE, out |-> GetFileStatus(storedPDFData, fileId)]
    /\ UNCHANGED <<localStorage, modal, pdfUpload, isVercel, apiKey,
                   storedPDFData, sessionStorage, uploads, netlog, questions,
                   backend, chat>>

\* The Map and its sessionStorage copy on their own, in a browser whose
\* storage can refuse an item (QuotaExceededError): documents are uploaded,
\* the held data is cleared, the status of a file is asked for, the page is
\* loaded again.
NextSession ==
    \/ \E doc \in Docs : Len(uploads) < 2 + MaxUploads /\ UploadStart(doc)
    \/ \E u \in 1..Len(uploads), data \in ResponsePayloads : UploadSucceed(u, data)
    \/ \E u \in 1..Len(uploads), data \in ResponsePayloads : UploadUnsaved(u, data)
    \/ \E u \in 1..Len(uploads) : UploadFail(u)
    \/ ClearStoredData
    \/ \E f \in FileIds : GetFileStatusCall(f)
    \/ Reload

SpecSession == InitStore /\ [][NextSession]_vars


-----------------------------------------------------------------------------
(* The conversation on its own: a server-resident deployment, the chat page *)
(* of an uploaded document is open and a first question has been asked;     *)
(* its answer was streamed in full, or failed after the first token, or     *)
(* was stopped after the first token, or broke after the first token.       *)
(* Further questions are asked through ChatInterface.                       *)

FirstRequest == ChatRequest("f1", "hi", <<>>)

FirstQuestion(calls, exit, aborted) ==
    [Question(ChatInterfaceClient, "chat", "stream", "f1", "closed", calls,
              exit, FirstRequest, None)
        EXCEPT !.aborted = aborted, !.abortCalls = IF aborted THEN 1 ELSE 0]

FirstBackend(st, sent, emitted) ==
    [Backend(<<"A", "B">>) EXCEPT !.st = st, !.sent = sent,
                                  !.emitted = emitted, !.eof = TRUE]

FirstChat(content, sources, error, ref) ==
    [ChatInit("chat", "f1") EXCEPT
        !.messages = <<ChatMessage("user", <<"hi">>, <<>>),
                       ChatMessage("assistant", content, sources)>>,
        !.currentSources = sources, !.error = error, !.abortStreamRef = ref]

\* questions[1], backend[1] and chat after the first question
FirstTurns ==
    { \* answered in full
      <<FirstQuestion(<<OnMessage(ContentEv("A")), OnMessage(ContentEv("B")),
                        OnMessage(SourcesEv(TwoSources)), OnComplete>>,
                      "marker", FALSE),
        FirstBackend("Complete", 2,
                     <<ContentEv("A"), ContentEv("B"), SourcesEv(TwoSources),
                       Event("done", "", <<>>)>>),
        FirstChat(<<"A", "B">>, TwoSources, "", 1)>>,
      \* failed after the first token
      <<FirstQuestion(<<OnMessage(ContentEv("A")), OnMessage(ErrorEv("kind")),
                        OnComplete>>, "eof", FALSE),
        FirstBackend("Failed", 1, <<ContentEv("A"), ErrorEv("kind")>>),
        FirstChat(<<"A">>, <<>>, "kind", 1)>>,
      \* stopped after the first token
      <<FirstQuestion(<<OnMessage(ContentEv("A"))>>, "aborted", TRUE),
        FirstBackend("Cancelled", 1, <<ContentEv("A")>>),
        FirstChat(<<"A">>, <<>>, "", 0)>>,
      \* connection broken after the first token
      <<FirstQuestion(<<OnMessage(ContentEv("A")), OnError>>, "error", FALSE),
        FirstBackend("Cancelled", 1, <<ContentEv("A")>>),
        FirstChat(<<"A">>, <<>>, "error.message", 1)>> }

InitChat ==
    /\ localStorage = "sk-key"
    /\ modal = ModalInit(FALSE)
    /\ pdfUpload = PDFUploadInit
    /\ core = CoreIdle
    /\ isVercel = FALSE
    /\ apiKey = "sk-key"
    /\ storedPDFData = <<>>
    /\ sessionStorage = None
    /\ uploads = <<FirstUpload(api)>>
    /\ netlog = {Requests("PDFUpload", api, UploadEndpoint(api), "f1", None),
                 Requests("ChatPage", "server", "/upload/pdf/:id/status", "f1", None),
                 Requests("chat", ChatInterfaceClient,
                          StreamEndpoint(ChatInterfaceClient), "f1", FirstRequest)}
    /\ \E t \in FirstTurns :
           /\ questions = <<t[1]>>
           /\ backend = <<t[2]>>
           /\ chat = t[3]

NextChat ==
    \/ SetInput("hi")
    \/ \E toks \in TokenSeqs :
          Len(questions) < 1 + MaxQuestions /\ HandleSubmit(toks)
    \/ HandleStopStreaming
    \/ ClientSteps
    \/ BackendSteps

SpecChat == InitChat /\ [][NextChat]_vars

-----------------------------------------------------------------------------
(* The key on its own: HomePage with its ApiKeyModal inside ApiKeyProvider; *)
(* the page is loaded with or without a stored key, the user opens and      *)
(* closes the modal, types and submits keys, and reloads the page.          *)

InitModal ==
    /\ core = CoreIdle
    /\ isVercel = FALSE
    /\ localStorage \in {"", "sk-key"}
    /\ apiKey = localStorage
    /\ modal = ModalInit(apiKey = "")
    /\ pdfUpload = PDFUploadInit
    /\ storedPDFData = <<>>
    /\ sessionStorage = None
    /\ uploads = <<>>
    /\ netlog = {}
    /\ questions = <<>>
    /\ backend = <<>>
    /\ chat = ChatInit("home", "")

NextModal ==
    \/ OpenModal
    \/ CloseModal
    \/ \E t \in KeyTexts : ModalSetApiKey(t)
    \/ SubmitApiKey
    \/ Reload

SpecModal == InitModal /\ [][NextModal]_vars

-----------------------------------------------------------------------------
(* PDFUpload on its own: the component is rendered inside an               *)
(* ApiKeyProvider that holds a key or none; files are selected and dropped, *)
(* the uploads resolve or reject, and the parent's onFileUploaded opens     *)
(* the chat page, from which the user comes back.                          *)

InitUpload ==
    /\ core = CoreIdle
    /\ isVercel \in BOOLEAN
    /\ localStorage \in {"", "sk-key"}
    /\ apiKey = localStorage
    /\ modal = ModalInit(FALSE)
    /\ pdfUpload = PDFUploadInit
    /\ storedPDFData = <<>>
    /\ sessionStorage = None
    /\ uploads = <<>>
    /\ netlog = {}
    /\ questions = <<>>
    /\ backend = <<>>
    /\ chat = ChatInit("home", "")

NextUpload ==
    \/ \E file \in Files :
          HandleFileSelect(file) /\ Len(uploads') <= MaxUploads
    \/ \E files \in Drops :
          HandleDrop(files) /\ Len(uploads') <= MaxUploads
    \/ HandleDragEnter
    \/ HandleDragLeave
    \/ \E u \in 1..Len(uploads), data \in ResponsePayloads : UploadSucceed(u, data)
    \/ \E u \in 1..Len(uploads) : UploadFail(u)
    \/ \E u \in 1..Len(uploads), ok \in BOOLEAN : UploadNotify(u, ok)
    \/ \E u \in 1..Len(uploads) : ProgressTick(u)
    \/ NavigateHome

SpecUpload == InitUpload /\ [][NextUpload]_vars

\* The same component with room for one more upload, so that a file can be
\* chosen again after an upload has failed or the user has come back.
NextSelect ==
    \/ \E file \in Files :
          HandleFileSelect(file) /\ Len(uploads') <= 1 + MaxUploads
    \/ \E files \in Drops :
          HandleDrop(files) /\ Len(uploads') <= 1 + MaxUploads
    \/ HandleDragEnter
    \/ HandleDragLeave
    \/ \E u \in 1..Len(uploads), data \in ResponsePayloads : UploadSucceed(u, data)
    \/ \E u \in 1..Len(uploads) : UploadFail(u)
    \/ \E u \in 1..Len(uploads), ok \in BOOLEAN : UploadNotify(u, ok)
    \/ \E u \in 1..Len(uploads) : ProgressTick(u)
    \/ NavigateHome

SpecSelect == InitUpload /\ [][NextSelect]_vars

-----------------------------------------------------------------------------
(* ChatInterface on its own: the component is rendered for a file id        *)
(* inside an ApiKeyProvider that holds a key or none; the user types,       *)
(* submits and stops.                                                       *)

InitInterface ==
    /\ core = CoreIdle
    /\ isVercel = FALSE
    /\ localStorage \in {"", "sk-key"}
    /\ apiKey = localStorage
    /\ modal = ModalInit(FALSE)
    /\ pdfUpload = PDFUploadInit
    /\ storedPDFData = <<>>
    /\ sessionStorage = None
    /\ uploads = <<>>
    /\ netlog = {}
    /\ questions = <<>>
    /\ backend = <<>>
    /\ chat = ChatInit("chat", "f1")

NextInterface ==
    \/ \E t \in InputTexts : SetInput(t)
    \/ \E toks \in TokenSeqs : CanAsk /\ HandleSubmit(toks)
    \/ HandleStopStreaming
    \/ ClientSteps
    \/ BackendSteps

SpecInterface == InitInterface /\ [][NextInterface]_vars


-----------------------------------------------------------------------------
(* ChatInterface from its mounting with a key: questions are typed,         *)
(* submitted and stopped one after another while the streams of the earlier *)
(* ones run on.  Each answer has one token.                                 *)

InitSubmit ==
    /\ core = CoreIdle
    /\ isVercel = FALSE
    /\ localStorage = "sk-key"
    /\ apiKey = "sk-key"
    /\ modal = ModalInit(FALSE)
    /\ pdfUpload = PDFUploadInit
    /\ storedPDFData = <<>>
    /\ sessionStorage = None
    /\ uploads = <<>>
    /\ netlog = {}
    /\ questions = <<>>
    /\ backend = <<>>
    /\ chat = ChatInit("chat", "f1")

NextSubmit ==
    \/ SetInput("hi")
    \/ Len(questions) < 1 + MaxQuestions /\ HandleSubmit(<<"A">>)
    \/ HandleStopStreaming
    \/ ClientSteps
    \/ BackendSteps

SpecSubmit == InitSubmit /\ [][NextSubmit]_vars

\* The same component with MaxQuestions questions and a transport that
\* does not leave a request pending for ever: a fetch that can settle and a
\* read that can return or fail eventually do.  Nothing is assumed of the
\* user.
NextProgress ==
    \/ SetInput("hi")
    \/ CanAsk /\ HandleSubmit(<<"A">>)
    \/ HandleStopStreaming
    \/ ClientSteps
    \/ BackendSteps

SpecProgress == InitSubmit /\ [][NextProgress]_vars /\ WF_vars(ClientSteps)

-----------------------------------------------------------------------------
(* readStream on its own: a streamChat call of either client whose fetch    *)
(* has resolved reads a response body, which the transport hands over in    *)
(* reads of any size until it reports the end.  core holds the body that    *)
(* the server wrote.                                                        *)

\* Lines of a response body: two data lines, the marker, an empty line, a
\* data line whose payload is not JSON, a line that is not a data line, and
\* a data line behind white space.
ReadLines ==
    { <<D, J(ContentEv("A"))>>, <<D, J(ContentEv("B"))>>, <<D, DONE>>, <<>>,
      <<D, TXT>>, <<TXT>>, <<SP, D, J(ContentEv("A"))>> }

\* The bodies of at most n lines, each ended by a line feed
RECURSIVE BodiesOf(_)
BodiesOf(n) ==
    IF n = 0 THEN {<<>>}
    ELSE BodiesOf(n - 1)
             \cup {l \o <<NL>> \o b : l \in ReadLines, b \in BodiesOf(n - 1)}

\* Response bodies: the last line may lack its line feed.
ReadBodies ==
    BodiesOf(MaxLines)
        \cup {b \o l : b \in BodiesOf(MaxLines - 1), l \in ReadLines \ {<<>>}}

InitRead ==
    /\ localStorage = "sk-key"
    /\ modal = ModalInit(FALSE)
    /\ pdfUpload = PDFUploadInit
    /\ isVercel \in BOOLEAN
    /\ apiKey = "sk-key"
    /\ storedPDFData = IF isVercel THEN << <<"f1", P1>> >> ELSE <<>>
    /\ sessionStorage = IF isVercel THEN SaveToSession(<< <<"f1", P1>> >>) ELSE None
    /\ uploads = <<FirstUpload(api)>>
    /\ netlog = {Requests("PDFUpload", api, UploadEndpoint(api), "f1", None),
                 Requests("direct", api, StreamEndpoint(api), "f1",
                          ChatBody(api, "f1", "hi", <<>>))}
    /\ chat = ChatInit("home", "")
    /\ \E body \in ReadBodies :
          /\ core = [fn |-> "readStream", args |-> [body |-> body],
                     done |-> FALSE, out |-> <<>>]
          /\ questions =
                 <<Question(api, "direct", "stream", "f1", "read", <<>>, "",
                            ChatBody(api, "f1", "hi", <<>>),
                            IF api = "stateless" THEN P1 ELSE None)>>
          /\ backend = <<[Backend(<<>>) EXCEPT !.st = "Complete",
                                               !.wire = body, !.eof = TRUE]>>

NextRead ==
    \/ \E n \in 1..Len(backend[1].wire) : Read(1, n)
    \/ ReadEnd(1)

SpecRead == InitRead /\ [][NextRead]_vars

-----------------------------------------------------------------------------
(* Properties of the streaming protocol, checked under SpecStream *)

\* The events handed to onMessage, in call order
RECURSIVE MsgEvents(_)
MsgEvents(calls) ==
    IF calls = <<>> THEN <<>>
    ELSE IF Head(calls).cb = "onMessage"
         THEN <<Head(calls).ev>> \o MsgEvents(Tail(calls))
         ELSE MsgEvents(Tail(calls))

IsPrefix(s, t) == Len(s) <= Len(t) /\ s = SubSeq(t, 1, Len(s))

Streams == {q \in Qs : questions[q].kind = "stream"}

\* content(t1), ..., content(tn), sources, completion marker
CompleteSequence(toks) ==
    [i \in 1..Len(toks) |-> ContentEv(toks[i])]
        \o <<SourcesEv(TwoSources), Event("done", "", <<>>)>>

\* C1: a question that ran to completion has emitted the content events in
\* the order of the backend's tokens, then one sources event, then the
\* completion marker; ApiClient hands the events to onMessage in the order
\* of emission at every moment, and once it has read the marker it has
\* handed over every content event and the sources event, followed by
\* onComplete.
C1_EventOrder ==
    \A q \in Streams :
        LET em == backend[q].emitted
            calls == questions[q].calls
        IN  /\ backend[q].st = "Complete"
                  => em = CompleteSequence(backend[q].toks)
            /\ questions[q].client = "server"
                  => IsPrefix(MsgEvents(calls), em)
            /\ questions[q].client = "server" /\ questions[q].exit = "marker"
                  => calls = [i \in 1..(Len(em) - 1) |-> OnMessage(em[i])]
                                 \o <<OnComplete>>

\* A question asked on the chat page has been answered in full.
C1_Witness ==
    \E q \in Streams :
        /\ questions[q].client = "server" /\ questions[q].owner = "chat"
        /\ backend[q].st = "Complete" /\ questions[q].exit = "marker"
        /\ Len(questions[q].calls) = 4

HasError(evs) == \E i \in 1..Len(evs) : evs[i].type = "error"

ErrorIsLast(evs) == \A i \in 1..Len(evs) : evs[i].type = "error" => i = Len(evs)

\* C4: a failed question emits one error event and nothing after it; the
\* client hands nothing to onMessage after an error event and does not
\* process a completion marker for that question, and ChatInterface shows
\* an error while the question is its current one.
C4_ErrorEndsSequence ==
    \A q \in Streams :
        LET m == MsgEvents(questions[q].calls) IN
        /\ ErrorIsLast(backend[q].emitted)
        /\ backend[q].st = "Failed" => HasError(backend[q].emitted)
        /\ ErrorIsLast(m)
        /\ HasError(m) => questions[q].exit # "marker"
        /\ HasError(m) /\ questions[q].owner = "chat" /\ chat.abortStreamRef = q
              => chat.error # ""

\* A question failed after two content events; the client has read the
\* response to its end.
C4_Witness ==
    \E q \in Streams :
        LET m == MsgEvents(questions[q].calls) IN
        /\ backend[q].st = "Failed"
        /\ Len(m) = 3 /\ m[3].type = "error"
        /\ questions[q].exit = "eof"

Terminal(call) == call.cb \in {"onComplete", "onError"}

\* C6: in the callbacks of a streamChat call a terminal callback (onComplete
\* or onError) occurs at most once and is the last callback, and the call's
\* promise chain has ended with it.
C6_OneTerminalCallback ==
    \A q \in Streams :
        \A i \in 1..Len(questions[q].calls) :
            Terminal(questions[q].calls[i])
                => i = Len(questions[q].calls) /\ ~InFlight(questions[q])

\* A stream ended by a read error after two events.
C6_Witness ==
    \E q \in Streams :
        /\ questions[q].exit = "error"
        /\ Len(questions[q].calls) = 3
        /\ questions[q].calls[3] = OnError


-----------------------------------------------------------------------------
(* Properties of the client-resident session store, checked under SpecStore *)

StatelessChatEndpoints == {StreamEndpoint("stateless"), SendEndpoint("stateless")}

\* The question that a step has started, when it has started one
Started(qs, qs2) == Len(qs2) > Len(qs)

\* C5: a question of the stateless client for a file id without held
\* payload ends in the call itself without a request: streamChat has called
\* onError once and nothing else, sendMessage has rejected without a
\* callback, and invoking the returned abort function changes nothing.
C5_MissingPayload ==
    /\ [](\A q \in Qs :
              questions[q].client = "stateless" /\ questions[q].held = None
              => /\ questions[q].request = None
                 /\ questions[q].phase = "closed"
                 /\ ~questions[q].aborted
                 /\ questions[q].kind = "stream"
                        => /\ questions[q].calls = <<OnError>>
                           /\ questions[q].exit = "missing"
                 /\ questions[q].kind = "send"
                        => /\ questions[q].calls = <<>>
                           /\ questions[q].exit = "rejected")
    /\ [][Started(questions, questions') =>
            LET q == questions'[Len(questions')] IN
            q.client = "stateless" /\ MapGet(storedPDFData, q.fileId) = None
                => q.held = None /\ netlog' = netlog]_vars

\* streamChat found no payload and its abort function has been invoked.
C5_Witness ==
    \E q \in Qs :
        /\ questions[q].client = "stateless" /\ questions[q].kind = "stream"
        /\ questions[q].held = None /\ questions[q].abortCalls = 1

\* C7: the request of a question in flight does not change, whatever is
\* stored or cleared meanwhile, and a question of the stateless client
\* carries the payload held when it starts.
C7_RequestIsSnapshot ==
    [][/\ \A q \in Qs :
              InFlight(questions[q])
                  => questions'[q].request = questions[q].request
       /\ Started(questions, questions') =>
              LET q == questions'[Len(questions')]
                  pdf == MapGet(storedPDFData, q.fileId)
              IN  q.client = "stateless" /\ pdf # None
                      => /\ q.request.chunks = pdf.chunks
                         /\ q.request.embeddings = pdf.embeddings
                         /\ q.request.chunk_metadata = pdf.chunk_metadata]_vars

\* A question is in flight whose payload has been replaced or cleared.
C7_Witness ==
    \E q \in Qs :
        /\ InFlight(questions[q]) /\ questions[q].client = "stateless"
        /\ questions[q].held # None
        /\ MapGet(storedPDFData, questions[q].fileId) # questions[q].held
        /\ questions[q].request.chunks = questions[q].held.chunks
        /\ questions[q].request.embeddings = questions[q].held.embeddings

HeldPayloads(m) == {m[i][2] : i \in 1..Len(m)}

\* C8: every held payload, in the Map or in its sessionStorage copy, has as
\* many embeddings as chunks.
C8_LengthsAgree ==
    \A p \in HeldPayloads(storedPDFData)
                 \cup HeldPayloads(RestoreFromSession(sessionStorage)) :
        Len(p.chunks) = Len(p.embeddings)

-----------------------------------------------------------------------------
(* Property of the application, checked under Spec *)

\* C3: every request of a deployment, for upload, file status and questions,
\* is made by the client that the factory selected.
C3_OneMode == \A r \in netlog : r.client = api


-----------------------------------------------------------------------------
(* Properties of the conversation, checked under SpecChat *)

ChatQs == {q \in Qs : questions[q].owner = "chat"}

\* A question has failed: onError was its last callback, or an error event
\* was handed over and its stream has ended.
Failed(q) ==
    LET c == questions[q].calls IN
    \/ c # <<>> /\ c[Len(c)] = OnError
    \/ HasError(MsgEvents(c)) /\ ~InFlight(questions[q])

\* C11: when the newest question of the chat has failed, an error message
\* is shown, the chat is not streaming and still on the same file id, so
\* that handleSubmit accepts a further question; the step in which the
\* question fails sends no request and leaves the held payloads alone.
C11_FailureEndsQuestionOnly ==
    /\ [](\A q \in ChatQs :
              q = Len(questions) /\ Failed(q)
              => /\ chat.error # ""
                 /\ ~chat.isStreaming
                 /\ apiKey # ""
                 /\ chat.fileId = questions[q].fileId)
    /\ [][\A q \in ChatQs :
              ~Failed(q) /\ Failed(q)'
              => UNCHANGED <<storedPDFData, sessionStorage, netlog, apiKey>>]_vars

\* A question failed by onError, and a further question has been submitted
\* with its turn as history.
C11_Witness ==
    /\ Len(questions) >= 2
    /\ questions[1].calls = <<OnMessage(ContentEv("A")), OnError>>
    /\ questions[2].owner = "chat" /\ InFlight(questions[2])
    /\ questions[2].fileId = questions[1].fileId

\* C12: the message list of the chat, which is the history passed with the
\* next question, holds the turns of the completed questions only.
C12_TurnAfterComplete ==
    chat.page = "chat"
    => Len(chat.messages) =
           2 * Cardinality({q \in ChatQs : questions[q].exit = "marker"})

RECURSIVE ContentOf(_)
ContentOf(evs) ==
    IF evs = <<>> THEN <<>>
    ELSE IF Head(evs).type = "content"
         THEN <<Head(evs).content>> \o ContentOf(Tail(evs))
         ELSE ContentOf(Tail(evs))

RECURSIVE SourcesOf(_)
SourcesOf(evs) ==
    IF evs = <<>> THEN <<>>
    ELSE IF evs[Len(evs)].type = "sources" THEN evs[Len(evs)].sources
         ELSE SourcesOf(SubSeq(evs, 1, Len(evs) - 1))

\* The turn of a question: its message and the answer received for it
Turn(q) ==
    LET evs == MsgEvents(questions[q].calls) IN
    <<ChatMessage("user", <<questions[q].request.message>>, <<>>),
      ChatMessage("assistant", ContentOf(evs), SourcesOf(evs))>>

RECURSIVE Turns(_)
Turns(n) == IF n = 0 THEN <<>> ELSE Turns(n - 1) \o Turn(n)

\* C13: the history passed with a question of the chat is the list of the
\* turns of the earlier questions, in order, each a user message followed by
\* the assistant message made of the content events received for it; the
\* question itself is not in it.
C13_HistoryIsEarlierTurns ==
    \A q \in ChatQs :
        /\ questions[q].request.history = Turns(q - 1)
        /\ Len(questions[q].request.history) = 2 * (q - 1)

\* A second question was submitted after a full answer.
C13_Witness ==
    /\ Len(questions) >= 2 /\ questions[2].owner = "chat"
    /\ questions[2].request.history[2].content = <<"A", "B">>
    /\ questions[2].request.history[2].sources = TwoSources

\* The callbacks a step makes for question q
Delivered(q) ==
    SubSeq(questions'[q].calls, Len(questions[q].calls) + 1,
           Len(questions'[q].calls))

OnlyFailure(calls) ==
    /\ calls # <<>>
    /\ \A i \in 1..Len(calls) :
           \/ calls[i] \in {OnError, OnComplete}
           \/ calls[i].cb = "onMessage" /\ calls[i].ev.type = "error"

\* C14: on the chat page no message is removed or replaced and the content
\* of a message only grows at its end; a step that delivers only an error
\* (event or onError) or the end of the stream, and the Stop button, leave
\* the list of messages as it is.
C14_ContentNotRetracted ==
    [][chat.page = "chat" /\ chat'.page = "chat"
       => /\ Len(chat'.messages) >= Len(chat.messages)
          /\ \A i \in 1..Len(chat.messages) :
                 /\ chat'.messages[i].role = chat.messages[i].role
                 /\ IsPrefix(chat.messages[i].content, chat'.messages[i].content)
          /\ (\E q \in ChatQs : OnlyFailure(Delivered(q)))
                 => chat'.messages = chat.messages
          /\ chat.abortStreamRef # 0 /\ chat'.abortStreamRef = 0
                 => chat'.messages = chat.messages]_vars

\* The second question broke after its first token; the partial answers of
\* both questions are in the list.
C14_Witness ==
    /\ Len(questions) >= 2
    /\ questions[2].calls = <<OnMessage(ContentEv("A")), OnError>>
    /\ Len(chat.messages) = 4
    /\ chat.messages[4].content = <<"A">>
    /\ chat.messages[2].content = <<"A">>

\* C15: the turn objects passed as history with a question stay as they
\* were passed: the messages of the chat at the positions of the history
\* equal the history of the request.
C15_HistoryNotMutated ==
    \A q \in ChatQs :
        LET h == questions[q].request.history IN
        /\ Len(h) <= Len(chat.messages)
        /\ SubSeq(chat.messages, 1, Len(h)) = h

\* A second question has been answered in full.
C15_Witness ==
    /\ Len(questions) >= 2 /\ questions[2].owner = "chat"
    /\ questions[2].exit = "marker"
    /\ Len(questions[2].request.history) = 2
    /\ chat.messages[4].content = <<"A", "B">>

-----------------------------------------------------------------------------
(* Properties of the Answer Synthesizer, checked under SpecStream *)

SynthesizerTransitions ==
    {<<"Idle", "Retrieving">>, <<"Retrieving", "Generating">>,
     <<"Generating", "Complete">>, <<"Retrieving", "Cancelled">>,
     <<"Generating", "Cancelled">>, <<"Idle", "Failed">>,
     <<"Retrieving", "Failed">>, <<"Generating", "Failed">>}

\* C16: the state of a question's synthesizer changes only along
\* Idle -> Retrieving -> Generating -> Complete, Retrieving -> Cancelled,
\* Generating -> Cancelled and (Idle, Retrieving or Generating) -> Failed;
\* a synthesizer that is Complete or Cancelled stays so and emits nothing more.
C16_SynthesizerTransitions ==
    [][\A q \in DOMAIN backend :
          /\ backend'[q].st # backend[q].st
                => <<backend[q].st, backend'[q].st>> \in SynthesizerTransitions
          /\ backend[q].st \in {"Complete", "Cancelled"}
                => /\ backend'[q].st = backend[q].st
                   /\ backend'[q].emitted = backend[q].emitted]_vars

\* A synthesizer is Complete and its caller has closed the stream: the
\* closing is not observed as a cancellation any more.
C16_Witness ==
    \E q \in DOMAIN backend :
        /\ backend[q].st = "Complete"
        /\ ~InFlight(questions[q])

-----------------------------------------------------------------------------
(* Properties of the Chunker and the Retriever, checked under SpecCore *)

ChunkDone == core.fn = "chunk" /\ core.done /\ core.out.error = ""

RECURSIVE Reconstruct(_, _)
\* The chunks' texts concatenated, the leading overlap characters of every
\* chunk but the first removed
Reconstruct(chunks, overlap) ==
    IF chunks = <<>> THEN <<>>
    ELSE IF Len(chunks) = 1 THEN chunks[1].text
    ELSE LET last == chunks[Len(chunks)].text IN
         Reconstruct(SubSeq(chunks, 1, Len(chunks) - 1), overlap)
             \o SubSeq(last, overlap + 1, Len(last))

\* C19: for every page text and every configuration with
\* overlap < chunk_size, the chunks of the page, concatenated with the
\* leading overlap removed from all but the first, give back the page text.
C19_ChunkCoverage ==
    ChunkDone => Reconstruct(core.out.chunks, core.args.overlap) = core.args.text

\* Three chunks with an overlap, the last one shorter than chunk_size.
C19_Witness ==
    /\ ChunkDone
    /\ core.args.overlap > 0
    /\ Len(core.out.chunks) = 3
    /\ Len(core.out.chunks[3].text) < core.args.size

\* C20: chunk i of a page starts at offset (i - 1) * (chunk_size - overlap)
\* and holds the chunk_size characters from there, or those up to the end
\* of the text; the first window that reaches the end of the text is the
\* last chunk.  With chunk_size 10 and overlap 3 the text "ABCDEFGHIJKLMNO"
\* gives exactly "ABCDEFGHIJ" and "HIJKLMNO".
C20_WindowsAndExample ==
    ChunkDone =>
        LET a == core.args
            cs == core.out.chunks
            n == Len(a.text)
        IN  /\ (cs = <<>>) <=> (n = 0)
            /\ \A i \in DOMAIN cs :
                  /\ cs[i].ordinal = i
                  /\ cs[i].offset = (i - 1) * (a.size - a.overlap)
                  /\ cs[i].text =
                        SubSeq(a.text, cs[i].offset + 1,
                               Min(cs[i].offset + a.size, n))
                  /\ (cs[i].offset + a.size >= n) <=> (i = Len(cs))
            /\ (a.text = PageText(15) /\ a.size = 10 /\ a.overlap = 3)
                  => [i \in DOMAIN cs |-> cs[i].text] =
                        << <<"A", "B", "C", "D", "E", "F", "G", "H", "I", "J">>,
                           <<"H", "I", "J", "K", "L", "M", "N", "O">> >>

\* The example of the claim has been chunked.
C20_Witness ==
    /\ ChunkDone
    /\ core.args.text = PageText(15)
    /\ core.args.size = 10
    /\ core.args.overlap = 3
    /\ Len(core.out.chunks) = 2

RetrieveDone == core.fn = "retrieve" /\ core.done

\* C18: retrieve(query, candidates, k) returns min(k, len(candidates))
\* results, each a candidate with its similarity to the query; they are in
\* descending order of similarity, candidates of equal similarity in their
\* original order; no candidate left out ranks before a returned one; an
\* empty candidate set gives an empty result.
C18_RetrieveRanked ==
    RetrieveDone =>
        LET a == core.args
            r == core.out
            n == Len(a.cands)
        IN  /\ Len(r) = Min(a.k, n)
            /\ (n = 0) => (r = <<>>)
            /\ \A i \in DOMAIN r :
                  /\ r[i].ordinal \in 1..n
                  /\ r[i].chunk = a.cands[r[i].ordinal].chunk
                  /\ r[i].sim = Similarity(a.query, a.cands[r[i].ordinal].vector)
                  /\ r[i].relevance_score \in 0..100
            /\ \A i, j \in DOMAIN r :
                  i < j => \/ r[i].sim > r[j].sim
                           \/ r[i].sim = r[j].sim /\ r[i].ordinal < r[j].ordinal
            /\ \A c \in 1..n :
                  (\A i \in DOMAIN r : r[i].ordinal # c)
                      => \A i \in DOMAIN r :
                            LET sim == Similarity(a.query, a.cands[c].vector) IN
                            \/ r[i].sim > sim
                            \/ r[i].sim = sim /\ r[i].ordinal < c

\* Two candidates of equal non-zero similarity are returned and a third
\* candidate is cut off by k.
C18_Witness ==
    /\ RetrieveDone
    /\ Len(core.out) = 2
    /\ Len(core.args.cands) = 3
    /\ core.out[1].sim = core.out[2].sim
    /\ core.out[1].sim > 0

-----------------------------------------------------------------------------
(* Property of the two session-store modes, checked under SpecStore *)

\* The questions reqs of the stateless client agree with the server-resident
\* mode on the uploads ups.
ModesAgree(reqs, ups) ==
    \A r \in reqs :
        /\ r.client = "stateless" /\ r.endpoint \in StatelessChatEndpoints
        /\ WellFormed(r.body)
        => \E u \in 1..Len(ups) :
               /\ ups[u].status = "ok" /\ ups[u].file_id = r.file_id
               /\ WellFormed(ups[u].data)
               /\ \A q \in Vectors, k \in 0..MaxK :
                     Retrieve(q, LoadSession(r.body), k)
                         = Retrieve(q, LoadSession(ups[u].data), k)

-----------------------------------------------------------------------------
(* Properties of the API key, checked under Spec *)

\* C21: no request sent to /api/v1 carries the user's API key: the
\* 'X-API-Key' header of every request is empty.
C21_KeyNotSent ==
    \A r \in netlog : r.xApiKey = ""

\* C22: a reload of the page leaves the application without an API key.
C22_ReloadClearsKey ==
    [][Reload => apiKey' = ""]_vars

-----------------------------------------------------------------------------
(* Properties of ApiKeyModal, checked under SpecModal *)

\* The text begins with the characters s, k, -
HasSkPrefix(t) ==
    /\ Len(Chars(t)) >= 3
    /\ SubSeq(Chars(t), 1, 3) = <<"s", "k", "-">>

\* C29: every key that onSubmit has been called with is non-empty and
\* begins with "sk-"; a submission of an empty field or of a text that does
\* not begin with "sk-" shows an error message, calls onSubmit with nothing,
\* leaves the modal open and the application's key as it was.
C29_OnSubmitValidated ==
    /\ [](\A k \in modal.onSubmit : k # "" /\ HasSkPrefix(k))
    /\ [][SubmitApiKey /\ (modal.apiKey = "" \/ ~HasSkPrefix(modal.apiKey))
            => /\ modal'.error # ""
               /\ modal'.onSubmit = modal.onSubmit
               /\ modal'.isOpen
               /\ apiKey' = apiKey /\ localStorage' = localStorage]_vars

\* After a key was accepted the modal was opened again and a text that
\* holds "sk-" behind a blank was submitted and refused.
C29_Witness ==
    /\ "sk-key" \in modal.onSubmit
    /\ modal.isOpen
    /\ modal.apiKey = " sk-key"
    /\ modal.error # ""

\* C30: when an error message is shown and the field is changed to a text
\* that begins with "sk-", the error message is gone after the change.
C30_ChangeClearsError ==
    [][/\ modal.isOpen /\ modal.error # ""
       /\ modal'.apiKey # modal.apiKey /\ HasSkPrefix(modal'.apiKey)
       /\ modal'.onSubmit = modal.onSubmit /\ apiKey' = apiKey
       => modal'.error = ""]_vars

-----------------------------------------------------------------------------
(* Properties of PDFUpload, checked under SpecUpload *)

\* A PDF of at most 10 MB
Admissible(file) ==
    file.type = "application/pdf" /\ file.size <= 10 * 1024 * 1024

\* The step sets an error message, calls uploadPDF for nothing and leaves
\* the component out of the uploading state.
Refused ==
    /\ pdfUpload'.error # ""
    /\ uploads' = uploads
    /\ ~pdfUpload'.isUploading

\* C23: a step calls uploadPDF only while a key is set and only for an
\* admissible file, which is the selected file or the first PDF of a drop;
\* the selection of any other file, a drop whose first PDF is not
\* admissible, a drop without a PDF and any selection or drop without a key
\* are refused.
C23_UploadValidated ==
    [][/\ Len(uploads') > Len(uploads)
          => /\ apiKey # ""
             /\ Len(uploads') = Len(uploads) + 1
             /\ \E file \in Files :
                   /\ Admissible(file)
                   /\ uploads'[Len(uploads')].doc = file.doc
                   /\ \/ HandleFileSelect(file)
                      \/ \E files \in Drops :
                            /\ \E i \in 1..Len(files) :
                                  /\ files[i] = file
                                  /\ \A j \in 1..(i - 1) :
                                        files[j].type # "application/pdf"
                            /\ HandleDrop(files)
       /\ \A file \in Files :
             HandleFileSelect(file) /\ (~Admissible(file) \/ apiKey = "")
                 => Refused
       /\ \A files \in Drops :
             /\ HandleDrop(files)
             /\ \/ apiKey = ""
                \/ \A i \in 1..Len(files) : files[i].type # "application/pdf"
                \/ \E i \in 1..Len(files) :
                      /\ files[i].type = "application/pdf"
                      /\ ~Admissible(files[i])
                      /\ \A j \in 1..(i - 1) : files[j].type # "application/pdf"
             => Refused]_vars

\* After an upload a PDF of more than 10 MB was chosen and refused.
C23_Witness ==
    /\ Len(uploads) = 1
    /\ pdfUpload.error = "File size must be less than 10MB"
    /\ ~pdfUpload.isUploading

\* C23 as stated: the selection of a file that is not admissible and a drop
\* that holds a file that is not admissible are refused.
C23_EveryOtherFileRefused ==
    [][/\ \A file \in Files :
             HandleFileSelect(file) /\ ~Admissible(file) => Refused
       /\ \A files \in Drops :
             /\ HandleDrop(files)
             /\ \E i \in 1..Len(files) : ~Admissible(files[i])
             => Refused]_vars

\* C24: onFileUploaded is called for an upload at most once, only when the
\* upload has succeeded, and with the file_id of its response: an upload
\* that succeeded and whose timer has fired has exactly one call, an upload
\* that failed has none, and a step that refuses a file calls nothing.
C24_NotifiedOncePerSuccess ==
    /\ [](\A u \in 1..Len(uploads) :
            /\ Len(uploads[u].onFileUploaded) <= 1
            /\ uploads[u].onFileUploaded # <<>>
                  => /\ uploads[u].status = "ok"
                     /\ uploads[u].onFileUploaded = <<uploads[u].data.file_id>>
            /\ uploads[u].status = "ok" /\ uploads[u].notified
                  => Len(uploads[u].onFileUploaded) = 1
            /\ uploads[u].status = "failed" => uploads[u].onFileUploaded = <<>>)
    /\ [][pdfUpload'.error # "" /\ pdfUpload'.error # pdfUpload.error
             => \A u \in 1..Len(uploads) :
                   /\ u \in 1..Len(uploads')
                   /\ uploads'[u].onFileUploaded = uploads[u].onFileUploaded]_vars

\* The parent was told of a successful upload, the user came back, and a
\* further file was refused.
C24_Witness ==
    /\ Len(uploads) = 1
    /\ uploads[1].status = "ok"
    /\ Len(uploads[1].onFileUploaded) = 1
    /\ pdfUpload.error = "Please select a PDF file"

-----------------------------------------------------------------------------
(* Properties of ChatInterface, checked under SpecChat and SpecInterface *)

\* C26: in every state the content of the assistant message of each
\* question of the chat is the sequence of the contents of the content
\* events handed to onMessage for that question so far, in call order.
C26_ContentIsEventsSoFar ==
    \A q \in ChatQs :
        /\ Len(chat.messages) >= 2 * q
        /\ chat.messages[2 * q].role = "assistant"
        /\ chat.messages[2 * q].content
               = ContentOf(MsgEvents(questions[q].calls))

\* The second question is being answered: its first token has arrived and
\* its stream is still read.
C26_Witness ==
    /\ Len(questions) >= 2 /\ questions[2].owner = "chat"
    /\ InFlight(questions[2]) /\ chat.isStreaming
    /\ questions[2].calls = <<OnMessage(ContentEv("A"))>>
    /\ chat.messages[4].content = <<"A">>
    /\ chat.messages[2].content = <<"A", "B">>

\* C27: while the chat is streaming the abort function of the newest
\* question is held, so that Stop acts; the step of Stop calls that
\* function once, the function of a question is called at most once, and
\* after the step the chat is not streaming, on the same page and with its
\* key, which is where handleSubmit accepts a question.
C27_StopAbortsOnce ==
    /\ [](chat.page = "chat" /\ chat.isStreaming
             => chat.abortStreamRef = Len(questions))
    /\ [](\A q \in ChatQs : questions[q].abortCalls <= 1)
    /\ [][chat.isStreaming /\ chat.abortStreamRef # 0 /\ chat'.abortStreamRef = 0
            => LET q == chat.abortStreamRef IN
               /\ questions'[q].abortCalls = questions[q].abortCalls + 1
               /\ questions'[q].aborted
               /\ \A p \in Qs \ {q} : questions'[p] = questions[p]
               /\ ~chat'.isStreaming
               /\ chat'.page = "chat" /\ apiKey' # ""]_vars

\* The second question was stopped after its first token, and the user has
\* typed the next question.
C27_Witness ==
    /\ Len(questions) >= 2 /\ questions[2].owner = "chat"
    /\ questions[2].abortCalls = 1 /\ questions[2].aborted
    /\ questions[2].calls = <<OnMessage(ContentEv("A"))>>
    /\ ~chat.isStreaming /\ chat.abortStreamRef = 0
    /\ chat.input = "hi"

\* C28: on the chat page the sources panel and the assistant message of the
\* newest question both hold the list of the last sources event handed to
\* onMessage for that question, and the empty list while there has been
\* none; the sources of an earlier question are not in the panel.
C28_SourcesOfCurrentQuestion ==
    \A q \in ChatQs :
        q = Len(questions) /\ chat.page = "chat"
        => LET srcs == SourcesOf(MsgEvents(questions[q].calls)) IN
           /\ chat.currentSources = srcs
           /\ Len(chat.messages) = 2 * q
           /\ chat.messages[2 * q].sources = srcs

\* The first answer came with sources; the second question has got its
\* first token and no sources event yet.
C28_Witness ==
    /\ Len(questions) = 2 /\ questions[2].owner = "chat"
    /\ InFlight(questions[2])
    /\ questions[2].calls = <<OnMessage(ContentEv("A"))>>
    /\ chat.messages[2].sources = TwoSources
    /\ chat.currentSources = <<>>
    /\ chat.messages[4].sources = <<>>

\* C25: a submission while the input is empty or blank, or while no key is
\* set, changes nothing: no request, no streamChat call, the messages, the
\* error, the sources and the streaming flag as before.  A step that starts
\* a question or adds a message is taken with a non-blank input and a key.
C25_EmptySubmitDoesNothing ==
    [][/\ /\ \E toks \in TokenSeqs : HandleSubmit(toks)
          /\ chat.input \in {"", " "} \/ apiKey = ""
          => UNCHANGED vars
       /\ Len(questions') > Len(questions)
              \/ Len(chat'.messages) > Len(chat.messages)
          => chat.input \notin {"", " "} /\ apiKey # ""]_vars

\* A blank has been typed into the input of a chat that holds a key, and the
\* form can be submitted.
C25_Witness ==
    /\ chat.page = "chat" /\ apiKey # ""
    /\ chat.input = " "
    /\ ~chat.isStreaming
    /\ questions = <<>> /\ chat.messages = <<>>

-----------------------------------------------------------------------------
(* Concurrency of ChatInterface, checked under SpecSubmit *)

\* The question has completed (onComplete), failed (onError) or been
\* stopped (its abort function was called).
Settled(q) ==
    \/ \E i \in 1..Len(questions[q].calls) :
          questions[q].calls[i] \in {OnComplete, OnError}
    \/ questions[q].abortCalls >= 1

\* C31: at most one question of the chat is neither completed, failed nor
\* stopped, and a step that calls streamChat is taken when every earlier
\* question of the chat is completed, failed or stopped.
C31_OneQuestionInFlight ==
    /\ [](Cardinality({q \in ChatQs : ~Settled(q)}) <= 1)
    /\ [][Started(questions, questions')
             => \A q \in ChatQs : Settled(q)]_vars

\* The first question was stopped and its request has not yet ended; the
\* second question is being answered.
C31_Witness ==
    /\ Len(questions) = 2 /\ ChatQs = {1, 2}
    /\ questions[1].abortCalls = 1 /\ InFlight(questions[1])
    /\ ~Settled(2)
    /\ InFlight(questions[2]) /\ chat.isStreaming
    /\ questions[2].calls = <<OnMessage(ContentEv("A"))>>

-----------------------------------------------------------------------------
(* Properties of the two readStream loops, checked under SpecRead *)

\* The lines of a body that are ended by a line feed
CompleteLines(body) ==
    LET lines == SplitNL(body) IN SubSeq(lines, 1, Len(lines) - 1)

\* The text begins with 'data: ' and goes on, between white space, with t
IsDataLineOf(line, t) ==
    /\ Len(line) >= 2 /\ line[1].k = "D"
    /\ \E i \in 2..Len(line) :
          /\ line[i] = t
          /\ \A j \in 2..Len(line) : j # i => line[j].k = "SP"

\* The callbacks due for a sequence of lines: the events of the data lines
\* in order up to the terminal marker, other lines skipped, then onComplete
\* at the marker or at the end of the stream.
RECURSIVE ExpectedCalls(_)
ExpectedCalls(lines) ==
    IF lines = <<>> THEN <<OnComplete>>
    ELSE IF IsDataLineOf(Head(lines), DONE) THEN <<OnComplete>>
    ELSE IF \E ev \in {ContentEv("A"), ContentEv("B")} :
                IsDataLineOf(Head(lines), J(ev))
         THEN LET ev == CHOOSE e \in {ContentEv("A"), ContentEv("B")} :
                            IsDataLineOf(Head(lines), J(e))
              IN <<OnMessage(ev)>> \o ExpectedCalls(Tail(lines))
    ELSE ExpectedCalls(Tail(lines))

\* The body ends with a line feed: every line of it is complete.
EndsWithNL(body) == body = <<>> \/ body[Len(body)] = NL

\* No line of the body begins with white space.
NoIndentedLine(body) ==
    \A i \in 1..Len(body) :
        body[i].k = "SP" => i > 1 /\ body[i - 1].k # "NL"

\* C32: for a body of complete lines, none of them behind white space, read
\* by either client, the callbacks made so far are the first of the
\* callbacks due for its lines (each data line before the marker once and in
\* order, the other lines skipped), and all of them once the call has ended.
C32_EveryDataLineDelivered ==
    \A q \in Streams :
        EndsWithNL(core.args.body) /\ NoIndentedLine(core.args.body)
        => LET due == ExpectedCalls(CompleteLines(core.args.body)) IN
           /\ IsPrefix(questions[q].calls, due)
           /\ ~InFlight(questions[q]) => questions[q].calls = due

\* C33: the callbacks of the server-mode client are those due for the
\* complete lines of the whole body, whatever reads it arrived in: at every
\* moment the first of them, and all of them once the call has ended.
C33_ReadsDoNotMatter ==
    \A q \in Streams :
        questions[q].client = "server"
        => LET due == ExpectedCalls(CompleteLines(core.args.body)) IN
           /\ IsPrefix(questions[q].calls, due)
           /\ ~InFlight(questions[q]) => questions[q].calls = due

\* The server-mode client has delivered the first data line and holds the
\* 'data: ' of the second one, whose payload comes with the next read.
C33_Witness ==
    \E q \in Streams :
        /\ questions[q].client = "server"
        /\ InFlight(questions[q])
        /\ questions[q].calls = <<OnMessage(ContentEv("A"))>>
        /\ questions[q].buffer = <<D>>
        /\ backend[q].wire = <<J(ContentEv("B")), NL>>

\* The callbacks of the server-mode client for a body that arrives in one
\* read and then ends
ServerCalls(body) ==
    LET r == ServerReadStep(<<>>, body) IN
    r.calls \o (IF r.returned THEN <<>> ELSE <<OnComplete>>)

\* C34: a call of the stateless client that has ended has made the
\* callbacks that the server-mode client makes for the same body.
C34_ClientsInterchangeable ==
    \A q \in Streams :
        questions[q].client = "stateless" /\ ~InFlight(questions[q])
        => questions[q].calls = ServerCalls(core.args.body)

-----------------------------------------------------------------------------
(* Progress of ChatInterface, checked under SpecProgress *)

-----------------------------------------------------------------------------
(* The progress bar of PDFUpload, checked under SpecUpload *)

\* C36: an interval that the component has set and not cleared belongs to
\* an upload that has not settled; once an upload has failed the progress
\* is 0 for as long as no upload is awaited; the progress is 100 only when
\* an upload of the component has succeeded.
C36_ProgressTimerCleared ==
    /\ \A u \in pdfUpload.intervals : uploads[u].status = "pending"
    /\ pdfUpload.calls = {} /\ pdfUpload.error = "err.message"
           => pdfUpload.uploadProgress = 0
    /\ pdfUpload.uploadProgress = 100
           => \E u \in pdfUpload.calls : uploads[u].status = "ok"

-----------------------------------------------------------------------------
(* Concurrency of PDFUpload, checked under SpecSelect *)

\* The uploadPDF calls of the mounted component that have not settled
Outstanding == {u \in pdfUpload.calls : uploads[u].status = "pending"}

-----------------------------------------------------------------------------
(* The session cache across page loads, checked under SpecSession *)

\* C38: a client constructed by a page load returns from getPDFData, for
\* every file id, what the client of the page before held, and after
\* clearStoredData neither the client nor one constructed next holds a
\* payload.
C38_CacheSurvivesReload ==
    /\ [][Reload => \A f \in FileIds :
                        MapGet(storedPDFData', f) = MapGet(storedPDFData, f)]_vars
    /\ [][ClearStoredData
             => \A f \in FileIds :
                   /\ MapGet(storedPDFData', f) = None
                   /\ MapGet(RestoreFromSession(sessionStorage'), f) = None]_vars

\* C39: a getFileStatus call of the stateless client that resolves with the
\* status completed is a call for a file id whose payload the client holds.
C39_StatusOnlyForHeld ==
    [][\A f \in FileIds :
          GetFileStatusCall(f) /\ core'.out.status = "completed"
              => MapGet(storedPDFData, f) # None]_vars

=============================================================================
